---- MODULE Spec2Model ----
\* Resume-Parser backend: the extraction cascade of parseResumeUniversal,
\* the parser of the upload route (parseResumeUniversally), AI normalization
\* (enhanceWithAI), the POST /upload handler and the Airtable adapter.
\*
\* Strings are modelled as sequences of tokens.  A token stands for a run of
\* characters that the code's length tests, includes() tests and regular
\* expressions treat as a unit; TokLen gives the number of characters it
\* stands for.  The empty string is << >>.
EXTENDS Naturals, Integers, Sequences, FiniteSets, TLC

(***************************************************************************)
(* Bounds                                                                  *)
(***************************************************************************)
MaxPages == 2
MaxRequests == 2
MaxSalaryLen == 3
MaxUploads == 2
MaxLines == 2

(***************************************************************************)
(* Strings as token sequences                                              *)
(***************************************************************************)
\* "w40", "w9", "x": 40, 9 and 1 lower-case word characters (no name, e-mail,
\*   job title, vocabulary word or artifact in them)
\* "sp": a run of 12 blanks; "s1": one blank; "nl": one newline; ",": a comma
\* "7 0 obj", "FlateDecode", "DCTDecode": PDF-structure words
\* "ab@mail.org": an e-mail address; "Ann Lee": a proper-case two-word name;
\* "engineer": a job title; "<bin>": 5 printable characters outside
\*   [A-Za-z0-9\s@.,\-+()]
\* every other token (a JSON value, a fence, a tag) counts as one character
\* the words of resume lines: headings, places, job titles, amounts
WordLen(tok) ==
  CASE tok = "Summary" -> 7
    [] tok = "Ran w40." -> 45
    [] tok = "Experience" -> 10
    [] tok = "Education" -> 9
    [] tok = "Lead" -> 4
    [] tok = "Now" -> 3
    [] tok = "Contact:" -> 8
    [] tok = "Address:" -> 8
    [] tok = "Austin" -> 6
    [] tok = "TX" -> 2
    [] tok = "in" -> 2
    [] tok = "Fluent" -> 6
    [] tok = "Speaks" -> 6
    [] tok = "Salary" -> 6
    [] tok = "Expected Salary" -> 15
    [] tok = "90k" -> 3
    [] tok = "95k" -> 3
    [] tok \in {"years", "total"} -> 5
    [] tok \in {"yrs", "exp"} -> 3
    [] tok \in {"of", "12"} -> 2
    [] tok = "experience" -> 10
    [] tok \in {"3", "5", "7", "+"} -> 1
    [] tok = " years" -> 6
    [] tok \in {"Python", "PYTHON", "Docker"} -> 6
    [] tok = "Pythonic" -> 8
    [] tok = "C" -> 1
    [] tok \in {"++", "11"} -> 2
    [] tok \in {"C++", "Git"} -> 3
    [] OTHER -> 5

TokLen(tok) ==
  CASE tok = "w40" -> 40
    [] tok = "w9" -> 9
    [] tok = "x" -> 1
    [] tok = "sp" -> 12
    [] tok = "s1" -> 1
    [] tok = "nl" -> 1
    [] tok = "," -> 1
    [] tok = "7 0 obj" -> 7
    [] tok = "FlateDecode" -> 11
    [] tok = "DCTDecode" -> 9
    [] tok = "ab@mail.org" -> 11
    [] tok = "john@example.com" -> 16
    [] tok = "mary@site.org" -> 13
    [] tok = "Ann Lee" -> 7
    [] tok = "engineer" -> 8
    [] tok = "<bin>" -> 5
    [] tok \in {"Summary", "Ran w40.", "Experience", "Education", "Lead", "Now",
                "Contact:", "Phone", "Email", "Address:", "Austin", "TX", "78701",
                "India", "Fluent", "in", "Hindi", "Speaks", "Salary",
                "Expected Salary", "90k", "95k", "$8500", "years", "yrs",
                "of", "experience", "exp", "total", "3", "5", "7", "12", "+", " years", "Python", "PYTHON", "Docker", "Pythonic",
                "C", "++", "11", "C++", "Git"} -> WordLen(tok)
    [] OTHER -> 1

IsSpace(tok) == tok \in {"sp", "s1", "nl"}

RECURSIVE StrLen(_)
StrLen(s) == IF s = << >> THEN 0 ELSE TokLen(Head(s)) + StrLen(Tail(s))

Includes(s, tok) == \E i \in 1..Len(s) : s[i] = tok

RECURSIVE TrimStart(_)
TrimStart(s) ==
  IF s = << >> THEN << >>
  ELSE IF IsSpace(Head(s)) THEN TrimStart(Tail(s)) ELSE s

RECURSIVE TrimEnd(_)
TrimEnd(s) ==
  IF s = << >> THEN << >>
  ELSE IF IsSpace(s[Len(s)]) THEN TrimEnd(SubSeq(s, 1, Len(s) - 1)) ELSE s

Trim(s) == TrimEnd(TrimStart(s))

RECURSIVE RemoveTok(_, _)
RemoveTok(s, toks) ==
  IF s = << >> THEN << >>
  ELSE IF Head(s) \in toks THEN RemoveTok(Tail(s), toks)
       ELSE <<Head(s)>> \o RemoveTok(Tail(s), toks)

\* .replace(/\s+/g, ' '): every maximal run of whitespace becomes one space
RECURSIVE CollapseSpace(_)
CollapseSpace(s) ==
  IF s = << >> THEN << >>
  ELSE IF IsSpace(Head(s))
       THEN <<"s1">> \o CollapseSpace(TrimStart(s))
       ELSE <<Head(s)>> \o CollapseSpace(Tail(s))

(***************************************************************************)
(* Candidate records                                                       *)
(***************************************************************************)
CandidateFields ==
  {"name", "email", "phone", "skills", "education", "experience", "location",
   "linkedinUrl", "expectedSalary", "summary", "areasOfExpertise",
   "qualifications", "languages", "currentJobTitle", "yearsOfExperience",
   "resumeText"}

\* object spread { ...a, ...b }
Spread(a, b) ==
  [k \in (DOMAIN a) \cup (DOMAIN b) |-> IF k \in DOMAIN b THEN b[k] ELSE a[k]]

EmptyObject == [k \in {} |-> << >>]

\* a.f as a JavaScript truth value (undefined and '' are falsy)
Truthy(r, f) == f \in DOMAIN r /\ r[f] # << >>

getFallbackDataUntagged ==
  [k \in CandidateFields \cup {"parsingMethod"} |-> << >>]

getFallbackData ==
  [k \in CandidateFields \cup {"parsingMethod"} |->
     IF k = "parsingMethod" THEN <<"Fallback">> ELSE << >>]

(***************************************************************************)
(* Text helpers of universalPdfParser.js                                   *)
(***************************************************************************)
RECURSIVE Join(_, _)
Join(parts, sep) ==
  IF parts = << >> THEN << >>
  ELSE IF Len(parts) = 1 THEN parts[1]
       ELSE parts[1] \o sep \o Join(Tail(parts), sep)

\* s.split(tok): the pieces between the occurrences of tok
RECURSIVE SplitAt(_, _, _)
SplitAt(s, tok, cur) ==
  IF s = << >> THEN <<cur>>
  ELSE IF Head(s) = tok THEN <<cur>> \o SplitAt(Tail(s), tok, << >>)
       ELSE SplitAt(Tail(s), tok, Append(cur, Head(s)))

NonEmpty(part) == part # << >>

\* the artifact words tested by the first strategy (line 47)
PdfParseArtifacts == {"7 0 obj", "FlateDecode"}

\* the artifact words tested before the image fallbacks (lines 91-109)
StructureArtifacts == {"7 0 obj", "FlateDecode", "DCTDecode"}

cleanExtractedTextKept(text) == text

\* cleanExtractedText (lines 227-290)
cleanExtractedText(text) ==
  IF text = << >> THEN << >>
  ELSE LET basic == Trim(CollapseSpace(RemoveTok(text, {"7 0 obj", "FlateDecode"})))
           \* no newline is left after the whitespace normalisation: one line
           keep == /\ Trim(basic) # << >>
                   /\ Trim(basic) # <<"DCTDecode">>
       IN  IF keep THEN basic ELSE << >>

LongRun(run) == StrLen(run) >= 10

\* extractTextAlternative on the utf8 decoding of the file; a file that cannot
\* be read makes the inner catch return ''
extractTextAlternative(fileReadable, rawBytes) ==
  IF ~fileReadable THEN << >>
  ELSE LET textMatches == SelectSeq(SplitAt(rawBytes, "<bin>", << >>), LongRun)
           readableText == Trim(CollapseSpace(rawBytes))
           structureText ==
             Trim(CollapseSpace(RemoveTok(rawBytes,
                    {"7 0 obj", "FlateDecode", "DCTDecode"})))
       IN  IF textMatches # << >> THEN Join(textMatches, <<"s1">>)
           ELSE IF StrLen(readableText) > 100 THEN readableText
           ELSE IF StrLen(structureText) > 50 THEN structureText
           ELSE << >>

hasMeaningfulTextAlways(text) == TRUE

hasMeaningfulText(text) ==
  /\ text # << >>
  /\ StrLen(text) > 50
  /\ \A a \in StructureArtifacts : ~Includes(text, a)

(***************************************************************************)
(* Field heuristics (parseTextIntelligently) on the token alphabet         *)
(***************************************************************************)
Lines(text) == SelectSeq([i \in 1..Len(SplitAt(text, "nl", << >>)) |->
                            Trim(SplitAt(text, "nl", << >>)[i])], NonEmpty)

\* the proper-case name that starts at position i: [A-Z][a-z]+(\s+[A-Z][a-z]+){1,3}
\* is greedy, so a second name two tokens further on is part of the match
NameAt(text, i) ==
  IF /\ i + 2 <= Len(text)
     /\ text[i + 1] \in {"sp", "s1"}
     /\ text[i + 2] = "Ann Lee"
  THEN SubSeq(text, i, i + 2)
  ELSE <<"Ann Lee">>

NamePositions(text) == {i \in 1..Len(text) : text[i] = "Ann Lee"}

Min(S) == CHOOSE m \in S : \A n \in S : m <= n

\* The alphabet has one name token and no line in which a name is followed by
\* 20 or more characters and then a full stop, so only these strategies of
\* extractName match: a whole line (strategy 1), a line start (strategy 2),
\* anywhere in the text (strategy 2.5).
extractName(lines, text) ==
  LET wholeLine == {i \in 1..Len(lines) :
                      i <= 15 /\ lines[i][1] = "Ann Lee" /\ lines[i] = NameAt(lines[i], 1)}
      lineStart == {i \in NamePositions(text) : i = 1 \/ text[i - 1] = "nl"}
  IN  IF wholeLine # {} THEN lines[Min(wholeLine)]
      ELSE IF lineStart # {} THEN NameAt(text, Min(lineStart))
      ELSE IF NamePositions(text) # {} THEN NameAt(text, Min(NamePositions(text)))
      ELSE << >>

\* the tokens that are an address: [a-zA-Z0-9._%+-]+@[a-zA-Z0-9.-]+\.[a-zA-Z]{2,}
EmailAddresses == {"ab@mail.org", "john@example.com", "mary@site.org"}

\* tokens made of letters only
Letters(tok) == tok \in {"x", "w9", "w40", "engineer", "Lead", "Phone", "Email", "India"}

\* tokens made of characters of [a-zA-Z0-9._%+-]
LocalPartChars(tok) == Letters(tok) \/ tok \in {".", "11"}

\* tokens made of characters of [a-zA-Z0-9.-]
DomainChars(tok) == Letters(tok) \/ tok \in {".", "11"}

\* the run of tokens before place p that the local part takes in as well
RECURSIVE MatchStart(_, _)
MatchStart(text, p) ==
  IF p > 1 /\ LocalPartChars(text[p - 1]) THEN MatchStart(text, p - 1) ELSE p

\* the run of tokens after place p that the domain can take in
RECURSIVE RunEnd(_, _)
RunEnd(text, p) ==
  IF p < Len(text) /\ DomainChars(text[p + 1]) THEN RunEnd(text, p + 1) ELSE p

\* the last place the match can end: the domain takes every token it can
\* and gives back until what follows its last dot is two letters or more
MatchEnd(text, p) ==
  LET ends == {e \in p..RunEnd(text, p) :
                 \/ e = p
                 \/ /\ Letters(text[e])
                    /\ \E d \in p..(e - 1) :
                         /\ d = p \/ text[d] = "."
                         /\ \A m \in (d + 1)..e : Letters(text[m])
                         /\ d = p \/ StrLen(SubSeq(text, d + 1, e)) >= 2}
  IN  CHOOSE e \in ends : \A f \in ends : f <= e

extractEmailLast(text) ==
  LET at == {i \in 1..Len(text) : text[i] \in EmailAddresses}
      last == CHOOSE i \in at : \A j \in at : j <= i
  IN  IF at = {} THEN << >>
      ELSE SubSeq(text, MatchStart(text, last), MatchEnd(text, last))

\* text.match(pattern): the leftmost match, each quantifier taking all it can
extractEmail(text) ==
  LET at == {i \in 1..Len(text) : text[i] \in EmailAddresses}
  IN  IF at = {} THEN << >>
      ELSE SubSeq(text, MatchStart(text, Min(at)), MatchEnd(text, Min(at)))

\* the job titles of the alphabet (the patterns are case-insensitive)
JobTitles == {"engineer", "Lead"}

JobPositions(text) == {i \in 1..Len(text) : text[i] \in JobTitles}

\* [^,\n]*: the rest of the line up to a comma
RECURSIVE UpToStop(_)
UpToStop(s) ==
  IF s = << >> \/ Head(s) \in {",", "nl"} THEN << >>
  ELSE <<Head(s)>> \o UpToStop(Tail(s))

Rest(text, i) == SubSeq(text, i, Len(text))

TakeN(parts, n) == SubSeq(parts, 1, IF Len(parts) < n THEN Len(parts) ELSE n)

\* the places where the tokens of pat occur in text
Occurs(text, pat) ==
  {i \in 1..Len(text) :
     i + Len(pat) - 1 <= Len(text) /\ SubSeq(text, i, i + Len(pat) - 1) = pat}

\* text.match(pattern) found nothing
NoMatch == <<"<no match>">>

\* [:\s]* after a heading
RECURSIVE SkipSeparators(_)
SkipSeparators(s) ==
  IF s = << >> \/ ~(IsSpace(Head(s)) \/ Head(s) = ":") THEN s
  ELSE SkipSeparators(Tail(s))

RECURSIVE UpToWord(_, _)
UpToWord(s, stops) ==
  IF s = << >> \/ Head(s) \in stops THEN << >>
  ELSE <<Head(s)>> \o UpToWord(Tail(s), stops)

\* heading[:\s]*(.+?)(?=stop words|$) with the flags i and s: the leftmost
\* heading that has text after it; the capture takes at least one character
\* and ends before the next stop word or with the text
SectionCapture(text, heads, stops) ==
  LET at == {i \in 1..Len(text) :
               text[i] \in heads /\ SkipSeparators(Rest(text, i + 1)) # << >>}
      body == SkipSeparators(Rest(text, Min(at) + 1))
  IN  IF at = {} THEN NoMatch ELSE <<Head(body)>> \o UpToWord(Tail(body), stops)

\* heading[:\s]*([^,\n]+) for headings that end at one of the places ends
LineCapture(text, ends) ==
  LET at == {i \in ends : UpToStop(SkipSeparators(Rest(text, i + 1))) # << >>}
  IN  IF at = {} THEN NoMatch ELSE UpToStop(SkipSeparators(Rest(text, Min(at) + 1)))

Among(text, toks) == {i \in 1..Len(text) : text[i] \in toks}

\* a pattern that one token matches as a whole
TokenCapture(text, tok) == IF Among(text, {tok}) = {} THEN NoMatch ELSE <<tok>>

StatePlace == <<"Austin", ",", "s1", "TX">>
ZipPlace == <<"Austin", ",", "s1", "TX", "s1", "78701">>
ContactList == <<"Phone", ",", "s1", "Email">>

\* the pattern lists, each pattern named by its field and its place in the list
locationPatterns == <<"location1", "location2", "location3", "location4", "location5">>
experienceSectionPatterns ==
  <<"experience1", "experience2", "experience3", "experience4", "experience5">>
summaryPatterns == <<"summary1", "summary2", "summary3", "summary4">>
educationSectionPatterns ==
  <<"education1", "education2", "education3", "education4", "education5">>
languagePatterns == <<"languages1", "languages2">>
salaryPatterns == <<"salary1", "salary2", "salary3", "salary4">>
jobTitlePatterns == <<"title1", "title2", "title3">>
experienceYearsPatterns == <<"years1", "years2", "years3">>

\* (?:Present|Current|Now)[^.\n]*title[^,\n]*: from "Now" over the last job
\* title of the line to the next comma or the end of the line
RECURSIVE UpToNewline(_)
UpToNewline(s) ==
  IF s = << >> \/ Head(s) = "nl" THEN << >> ELSE <<Head(s)>> \o UpToNewline(Tail(s))

NowTitle(text, i) ==
  LET line == UpToNewline(Rest(text, i))
      titles == JobPositions(line)
      last == CHOOSE t \in titles : \A u \in titles : u <= t
  IN  IF titles = {} THEN NoMatch
      ELSE SubSeq(line, 1, last) \o UpToStop(Rest(line, last + 1))

\* the first place from j on whose token is not one of toks
RECURSIVE SkipOver(_, _, _)
SkipOver(text, j, toks) ==
  IF j <= Len(text) /\ text[j] \in toks THEN SkipOver(text, j + 1, toks) ELSE j

TokenAt(text, j) == IF j \in 1..Len(text) THEN text[j] ELSE "<end>"

\* \d+
Counts == {"3", "5", "7", "12"}

\* years?|yrs?
YearUnits == {"years", "yrs"}

\* the place after \+?\s*(?:years?|yrs?) read from place j, or 0
AfterUnit(text, j) ==
  LET unit == SkipOver(text, IF TokenAt(text, j) = "+" THEN j + 1 ELSE j, {"s1", "sp", "nl"})
  IN  IF TokenAt(text, unit) \in YearUnits THEN unit + 1 ELSE 0

\* (\d+)\+?\s*(?:years?|yrs?)\s*(?:of\s*)?(?:experience|exp) with the flag i
\* matches from place i: the last part matches where a token begins with exp
CountBefore(text, i) ==
  LET of == SkipOver(text, AfterUnit(text, i + 1), {"s1", "sp", "nl"})
      word == IF TokenAt(text, of) = "of" THEN SkipOver(text, of + 1, {"s1", "sp", "nl"}) ELSE of
  IN  /\ text[i] \in Counts
      /\ AfterUnit(text, i + 1) # 0
      /\ TokenAt(text, word) \in {"experience", "exp", "Experience", "Expected Salary"}

\* (?:experience|exp)[:\s]*(\d+)\+?\s*(?:years?|yrs?) with the flag i matches
\* from the end of the token at place i
CountAfter(text, i) ==
  LET count == SkipOver(text, i + 1, {":", "s1", "sp", "nl"})
  IN  /\ text[i] \in {"experience", "exp", "Experience"}
      /\ TokenAt(text, count) \in Counts
      /\ AfterUnit(text, count + 1) # 0

YearsCountLast(text) ==
  LET at == {i \in 1..Len(text) : CountBefore(text, i)}
  IN  IF at = {} THEN NoMatch ELSE <<text[CHOOSE i \in at : \A j \in at : j <= i]>>

\* the count of the leftmost match of the first pattern
YearsCount(text) ==
  LET at == {i \in 1..Len(text) : CountBefore(text, i)}
  IN  IF at = {} THEN NoMatch ELSE <<text[Min(at)]>>

\* what the pattern captures in the text (for the job title: what it matches);
\* a pattern of which the alphabet has no instance captures nothing
Capture(pattern, text) ==
  CASE pattern = "location1" -> IF Occurs(text, ZipPlace) = {} THEN NoMatch ELSE ZipPlace
    [] pattern = "location2" -> IF Occurs(text, StatePlace) = {} THEN NoMatch ELSE StatePlace
    [] pattern = "location3" ->
         LET at == Occurs(text, StatePlace) \cup Occurs(text, ContactList)
         IN  IF at = {} THEN NoMatch ELSE SubSeq(text, Min(at), Min(at) + 3)
    [] pattern = "location5" -> TokenCapture(text, "India")
    [] pattern = "locationAddress" -> LineCapture(text, Among(text, {"Address:"}))
    [] pattern \in {"experience1", "experience2"} ->
         SectionCapture(text, {"Experience", "experience"}, {"Education"})
    [] pattern = "summary1" -> SectionCapture(text, {"Summary"}, {"Experience", "experience", "Education"})
    [] pattern = "summary3" ->
         IF \E i \in Among(text, {"Ran w40."}) : i = 1 \/ text[i - 1] = "nl"
         THEN <<"Ran w40.">> ELSE NoMatch
    [] pattern = "education1" -> SectionCapture(text, {"Education"}, {"Experience", "experience"})
    [] pattern = "languages1" -> LineCapture(text, Among(text, {"Fluent"}))
    [] pattern = "languages2" ->
         LineCapture(text, Among(text, {"Speaks"})
                             \cup {i + 2 : i \in Occurs(text, <<"Fluent", "s1", "in">>)})
    [] pattern = "salary1" -> LineCapture(text, Among(text, {"Expected Salary"}))
    [] pattern = "salary2" -> LineCapture(text, Among(text, {"Salary", "Expected Salary"}))
    [] pattern = "salary4" -> TokenCapture(text, "$8500")
    [] pattern = "title1" ->
         IF JobPositions(text) = {} THEN NoMatch
         ELSE UpToStop(Rest(text, Min(JobPositions(text))))
    [] pattern = "title2" ->
         LET at == {i \in Among(text, {"Now"}) : NowTitle(text, i) # NoMatch}
         IN  IF at = {} THEN NoMatch ELSE NowTitle(text, Min(at))
    [] pattern = "years1" -> YearsCount(text)
    [] pattern = "years2" ->
         LET at == {i \in 1..Len(text) : CountAfter(text, i)}
         IN  IF at = {} THEN NoMatch
             ELSE <<text[SkipOver(text, Min(at) + 1, {":", "s1", "sp", "nl"})]>>
    [] OTHER -> NoMatch

\* the test a capture has to pass before it is returned
Valid(field, capture) ==
  CASE field = "location" ->
         \A i \in 1..Len(capture) :
           capture[i] \notin {"Email", "Phone", "Experience"}
    [] field = "summary" -> StrLen(Trim(capture)) > 20 /\ StrLen(Trim(capture)) < 500
    [] field = "currentJobTitle" -> StrLen(Trim(capture)) > 5 /\ StrLen(Trim(capture)) < 100
    [] OTHER -> TRUE

\* .trim().split('\n').slice(0, n).join(' ')
FirstLines(capture, n) == Join(TakeN(SplitAt(Trim(capture), "nl", << >>), n), <<"s1">>)

\* the value returned for a capture
ValueOf(field, capture) ==
  CASE field = "summary" -> Trim(FirstLines(capture, 3))
    [] field = "experience" -> FirstLines(capture, 30)
    [] field = "education" -> FirstLines(capture, 4)
    [] field = "yearsOfExperience" -> capture \o <<" years">>
    [] OTHER -> Trim(capture)

RECURSIVE FirstValid(_, _, _)
LastValid(field, patterns, text) ==
  LET ok == {i \in 1..Len(patterns) :
               /\ Capture(patterns[i], text) \notin {NoMatch, << >>}
               /\ Valid(field, Capture(patterns[i], text))}
      last == CHOOSE i \in ok : \A j \in ok : j <= i
  IN  IF ok = {} THEN NoMatch ELSE ValueOf(field, Capture(patterns[last], text))

\* for (const pattern of patterns) { match ...; if (match && match[1] && test) return ... }
FirstValid(field, patterns, text) ==
  IF patterns = << >> THEN NoMatch
  ELSE IF /\ Capture(Head(patterns), text) \notin {NoMatch, << >>}
          /\ Valid(field, Capture(Head(patterns), text))
       THEN ValueOf(field, Capture(Head(patterns), text))
       ELSE FirstValid(field, Tail(patterns), text)

\* (?:\n[^,\n]*){0,5}
RECURSIVE MoreLines(_, _)
MoreLines(s, k) ==
  IF k = 0 \/ s = << >> \/ Head(s) # "nl" THEN << >>
  ELSE <<"nl">> \o UpToStop(Tail(s))
         \o MoreLines(Rest(Tail(s), Len(UpToStop(Tail(s))) + 1), k - 1)

\* job title followed by the rest of its line and up to five more lines
JobEntry(s) == UpToStop(s) \o MoreLines(Rest(s, Len(UpToStop(s)) + 1), 5)

\* text.match(pattern) with the g flag: every entry, from left to right
RECURSIVE JobEntries(_)
JobEntries(text) ==
  IF JobPositions(text) = {} THEN << >>
  ELSE <<JobEntry(Rest(text, Min(JobPositions(text))))>>
         \o JobEntries(Rest(text, Min(JobPositions(text))
                                    + Len(JobEntry(Rest(text, Min(JobPositions(text)))))))

LongLine(line) == StrLen(Trim(line)) > 20

\* what an extractor returns when no pattern of its list gave a value
Fallback(field, text) ==
  CASE field = "experience" -> Join(TakeN(JobEntries(text), 5), <<"nl">>)
    [] field = "currentJobTitle" ->
         IF JobPositions(text) = {} THEN << >> ELSE <<text[Min(JobPositions(text))]>>
    [] field = "summary" ->
         \* the first line of more than 20 characters, when it is shorter than 300
         LET long == SelectSeq(SplitAt(text, "nl", << >>), LongLine)
         IN  IF long # << >> /\ StrLen(Trim(long[1])) < 300 THEN Trim(long[1]) ELSE << >>
    [] OTHER -> << >>

Extracted(field, patterns, text) ==
  IF FirstValid(field, patterns, text) # NoMatch
  THEN FirstValid(field, patterns, text) ELSE Fallback(field, text)

extractLocation(text) == Extracted("location", locationPatterns, text)

extractExperience(text) == Extracted("experience", experienceSectionPatterns, text)

extractSummary(text) == Extracted("summary", summaryPatterns, text)

extractEducation(text) == Extracted("education", educationSectionPatterns, text)

extractLanguages(text) == Extracted("languages", languagePatterns, text)

extractExpectedSalary(text) == Extracted("expectedSalary", salaryPatterns, text)

extractCurrentJobTitle(text) == Extracted("currentJobTitle", jobTitlePatterns, text)

extractYearsOfExperience(text) == Extracted("yearsOfExperience", experienceYearsPatterns, text)

\* the skill vocabulary: of each category the skills the alphabet can spell,
\* and one it cannot; Docker is listed under cloud and again under tools
skillCategories ==
  [programming |-> <<"Python", "C++">>, cloud |-> <<"Docker">>, tools |-> <<"Git", "Docker">>]

\* Object.values(skillCategories).flat()
allSkills == skillCategories.programming \o skillCategories.cloud \o skillCategories.tools

\* a token that is made of word characters (\w)
WordChars(tok) == tok \notin {"nl", "s1", "sp", ",", ":", ".", "++"}

\* the i flag
LowerCase(tok) ==
  CASE tok \in {"Python", "PYTHON"} -> "python"
    [] tok = "Docker" -> "docker"
    [] tok = "Git" -> "git"
    [] tok = "C" -> "c"
    [] OTHER -> tok

\* the escaped skill, as the tokens it matches
SkillPattern(skill) ==
  CASE skill = "Python" -> <<"python">>
    [] skill = "C++" -> <<"c", "++">>
    [] skill = "Docker" -> <<"docker">>
    [] skill = "Git" -> <<"git">>

\* the places where the skill is spelled in the text, in any case
Spelled(skill, text) ==
  {i \in 1..Len(text) :
     /\ i + Len(SkillPattern(skill)) - 1 <= Len(text)
     /\ \A k \in 1..Len(SkillPattern(skill)) :
          LowerCase(text[i + k - 1]) = SkillPattern(skill)[k]}

WordCharAt(text, i) == i \in 1..Len(text) /\ WordChars(text[i])

\* \b after the token at place i: a word character on exactly one side
WordBoundary(text, i) == WordCharAt(text, i) # WordCharAt(text, i + 1)

\* new RegExp(`\\b${escaped skill}\\b`, 'i').test(text)
SkillTest(skill, text) ==
  \E i \in Spelled(skill, text) :
    WordBoundary(text, i - 1) /\ WordBoundary(text, i + Len(SkillPattern(skill)) - 1)

\* allSkills.filter(...).join(', ')
extractSkills(text) ==
  LET found(skill) == SkillTest(skill, text)
      foundSkills == SelectSeq(allSkills, found)
  IN  Join([i \in 1..Len(foundSkills) |-> <<foundSkills[i]>>], <<",", "s1">>)

parseTextIntelligently(text) ==
  [k \in CandidateFields |->
     CASE k = "name" -> Trim(extractName(Lines(text), text))
       [] k = "email" -> extractEmail(text)
       [] k = "experience" -> Trim(extractExperience(text))
       [] k = "summary" -> Trim(extractSummary(text))
       [] k = "currentJobTitle" -> Trim(extractCurrentJobTitle(text))
       [] k = "resumeText" -> text
       [] OTHER -> << >>]

\* parseResumeText (lines 1372-1593).  Of its extractName only the whole-line
\* strategy matches (the local part of the e-mail address has two characters,
\* the strategy that reads a name from it wants more than two); no token is
\* a section heading, a phone number, a location or a vocabulary word.
parseResumeText(text) ==
  LET lines == Lines(text)
      wholeLine == {i \in 1..Len(lines) : i <= 10 /\ lines[i] = <<"Ann Lee">>}
      name == IF wholeLine # {} THEN lines[Min(wholeLine)] ELSE << >>
      title == IF JobPositions(text) = {} THEN << >>
               ELSE UpToStop(SubSeq(text, Min(JobPositions(text)), Len(text)))
  IN  [k \in CandidateFields |->
         CASE k = "name" -> Trim(name)
           [] k = "email" -> Trim(extractEmail(text))
           [] k = "currentJobTitle" -> Trim(title)
           [] k = "resumeText" -> text
           [] OTHER -> << >>]

\* the record parseResumeUniversally returns when pdf-parse gave too little
\* text (lines 1626-1643): no parsingMethod field
MinimalData(extractedText) ==
  [k \in CandidateFields |-> IF k = "resumeText" THEN extractedText ELSE << >>]

(***************************************************************************)
(* The model's replies and JSON.parse                                      *)
(***************************************************************************)
\* the fields the prompt asks the model for
PromptFields == CandidateFields \ {"resumeText"}

JSONObjects == {"J_full", "J_sum", "J_exp", "J_empty"}

\* tokens that are a complete JSON text; "J_null" is the JSON text null
JSONTexts == JSONObjects \cup {"J_null"}

JSONObject(tok) ==
  CASE tok = "J_full" ->
         [k \in PromptFields |->
            CASE k = "name" -> <<"Ann Lee">>
              [] k = "email" -> <<"ab@mail.org">>
              [] k = "experience" -> <<"engineer">>
              [] k = "skills" -> <<"w9", ",", "s1", "x">>
              [] OTHER -> << >>]
    [] tok = "J_sum" ->
         [k \in PromptFields |-> IF k = "summary" THEN <<"w40">> ELSE << >>]
    [] tok = "J_exp" ->
         [k \in {"experience", "skills", "phone", "parsingMethod"} |->
            CASE k = "experience" -> <<"w9">>
              [] k = "skills" -> <<"x", ",", "w9">>
              [] k = "phone" -> << >>
              [] OTHER -> <<"model">>]
    [] OTHER -> EmptyObject

\* JSON.parse: white space around one JSON text is allowed, anything else throws
JSONParse(text) ==
  LET t == Trim(text)
  IN  IF Len(t) = 1 /\ t[1] \in JSONTexts
      THEN [threw |-> FALSE, isNull |-> t[1] = "J_null", obj |-> JSONObject(t[1])]
      ELSE [threw |-> TRUE, isNull |-> FALSE, obj |-> EmptyObject]

\* content.match of the json code fence pattern ("~~~" stands for the three
\* back quotes of a fence): the leftmost opening fence followed by a newline and
\* the nearest closing fence after it; << >> when there is no match or the
\* captured group is empty
FenceMatches(content) ==
  {m \in (1..Len(content)) \X (1..Len(content)) :
     /\ content[m[1]] = "~~~json"
     /\ m[1] + 1 <= Len(content) /\ content[m[1] + 1] = "nl"
     /\ m[2] >= m[1] + 2 /\ m[2] + 1 <= Len(content)
     /\ content[m[2]] = "nl"
     /\ content[m[2] + 1] \in {"~~~", "~~~json"}}

FenceGroup(content) ==
  LET ms == FenceMatches(content)
  IN  IF ms = {} THEN << >>
      ELSE LET first == CHOOSE m \in ms :
                          \A n \in ms : m[1] < n[1] \/ (m[1] = n[1] /\ m[2] <= n[2])
           IN  SubSeq(content, first[1] + 2, first[2] - 1)

ParseAIReplyWhole(content) == JSONParse(content)

\* the parsing step of enhanceWithAI (lines 446-464)
ParseAIReply(content) ==
  IF FenceGroup(content) # << >> THEN JSONParse(FenceGroup(content))
  ELSE JSONParse(content)

Bare(j) == <<j>>
Fenced(j) == <<"~~~json", "nl", j, "nl", "~~~">>

\* what the chat completion call can answer: "error" (the call rejects or
\* the reply has no content) or the content of the reply
AIContents ==
  {Bare(j) : j \in {"J_full", "J_sum", "J_empty", "J_null", "{bad"}}
    \cup {Fenced(j) : j \in {"J_full", "J_sum", "J_null", "{bad"}}
    \cup {<<"w9", "nl", "~~~json", "nl", "J_full", "nl", "~~~">>,
          <<"~~~", "nl", "J_full", "nl", "~~~">>,
          <<"w9", "s1", "J_full">>,
          <<"nl", "J_sum", "nl">>}

\* enhanceWithAI(text): the reply decides the outcome
enhanceWithAI(reply) ==
  IF reply = <<"error">> THEN [threw |-> TRUE, isNull |-> FALSE, obj |-> EmptyObject]
  ELSE ParseAIReply(reply)

AIOutcomes == AIContents \cup {<<"error">>}

(***************************************************************************)
(* AI vision: merging the pages' replies (parseResumeWithAI)               *)
(***************************************************************************)
\* a.f || ''
OrEmpty(r, f) == IF Truthy(r, f) THEN r[f] ELSE << >>

RECURSIVE Dedupe(_, _)
Dedupe(items, seen) ==
  IF items = << >> THEN << >>
  ELSE IF Head(items) \in seen THEN Dedupe(Tail(items), seen)
       ELSE <<Head(items)>> \o Dedupe(Tail(items), seen \cup {Head(items)})

HasText(item) == Trim(item) # << >>

\* `${a}\n\n${b || ''}`.trim()
ConcatPages(a, b) == Trim(a \o <<"nl", "nl">> \o b)

\* [...new Set([...a.split(','), ...b.split(',')])].filter(s => s.trim()).join(', ')
MergeSkills(a, b) ==
  Join(SelectSeq(Dedupe(SplitAt(a, ",", << >>) \o SplitAt(b, ",", << >>), {}), HasText),
       <<",", "s1">>)

\* the merge of one page into the data merged so far; education is
\* concatenated only by the copy in universalPdfParser.js (lines 1338-1353)
MergePage(all, page, withEducation) ==
  LET merged == [k \in {"experience", "skills"} \cup
                        (IF withEducation THEN {"education"} ELSE {}) |->
                   IF k = "skills"
                   THEN IF Truthy(all, k) THEN MergeSkills(all[k], OrEmpty(page, k))
                        ELSE OrEmpty(page, k)
                   ELSE IF Truthy(all, k) THEN ConcatPages(all[k], OrEmpty(page, k))
                        ELSE OrEmpty(page, k)]
  IN  Spread(Spread(all, page), merged)

\* a page's reply as parsed by the page loop: aiResumeParser.js parses the
\* whole content (line 136), universalPdfParser.js tolerates a code fence
PageData(reply, fenceTolerant) ==
  IF reply = <<"error">> THEN [threw |-> TRUE, isNull |-> FALSE, obj |-> EmptyObject]
  ELSE IF fenceTolerant THEN ParseAIReply(reply) ELSE JSONParse(reply)

\* the page loop: a page whose call or parse fails, or whose JSON is null
\* (reading a field of null throws inside the inner try), is skipped
RECURSIVE MergePages(_, _, _, _)
MergePages(all, replies, fenceTolerant, withEducation) ==
  IF replies = << >> THEN all
  ELSE LET page == PageData(Head(replies), fenceTolerant)
           next == IF page.threw \/ page.isNull THEN all
                   ELSE MergePage(all, page.obj, withEducation)
       IN  MergePages(next, Tail(replies), fenceTolerant, withEducation)

\* what one page's chat completion call can answer
PageReplies ==
  {<<"error">>, Bare("J_full"), Bare("J_exp"), Bare("J_sum"), Fenced("J_full")}

\* the replies of the pages of one document: one reply per page image
PageRuns == UNION {[1..n -> PageReplies] : n \in 1..MaxPages}

\* aiResult && (aiResult.name || aiResult.email || aiResult.experience)
Usable(r) == Truthy(r, "name") \/ Truthy(r, "email") \/ Truthy(r, "experience")

(***************************************************************************)
(* OCR parser (ocrPdfParser.js) and structure scraping: text helpers       *)
(***************************************************************************)
RECURSIVE MapTok(_, _, _)
MapTok(s, from, to) ==
  IF s = << >> THEN << >>
  ELSE <<IF Head(s) = from THEN to ELSE Head(s)>> \o MapTok(Tail(s), from, to)

\* cleanOCRText: white space is normalised to single blanks and a full stop
\* between two word characters is removed, which turns the e-mail address
\* into the word "ab@mailorg"
cleanOCRText(text) ==
  IF text = << >> THEN << >>
  ELSE Trim(CollapseSpace(MapTok(Trim(CollapseSpace(text)), "ab@mail.org", "ab@mailorg")))

\* fullText of the OCR page loop: text + '\n\n' for every page that was
\* recognised with some non-blank text
RECURSIVE OcrFullText(_)
OcrFullText(pages) ==
  IF pages = << >> THEN << >>
  ELSE (IF Head(pages) # <<"error">> /\ Trim(Head(pages)) # << >>
        THEN Head(pages) \o <<"nl", "nl">> ELSE << >>) \o OcrFullText(Tail(pages))

\* extractName of the OCR parser: whole line, then line start; it has no
\* strategy that looks inside a line
extractNameOCR(lines, text) ==
  LET wholeLine == {i \in 1..Len(lines) :
                      i <= 15 /\ lines[i][1] = "Ann Lee" /\ lines[i] = NameAt(lines[i], 1)}
      lineStart == {i \in NamePositions(text) : i = 1 \/ text[i - 1] = "nl"}
  IN  IF wholeLine # {} THEN lines[Min(wholeLine)]
      ELSE IF lineStart # {} THEN NameAt(text, Min(lineStart))
      ELSE << >>

parseTextIntelligentlyOCR(text) ==
  [parseTextIntelligently(text) EXCEPT !["name"] = Trim(extractNameOCR(Lines(text), text))]

\* the text extractFromPdfStructure collects: every distinct match of its
\* patterns in the raw bytes (of the alphabet only the e-mail address matches
\* one), then, when the alternative extraction has more than 100 characters,
\* the names and e-mail addresses found there; each followed by a blank
StructureMatches(fileReadable, rawBytes) ==
  LET alt == extractTextAlternative(fileReadable, rawBytes)
      fromRaw == IF Includes(rawBytes, "ab@mail.org") THEN << <<"ab@mail.org">> >> ELSE << >>
      fromAlt == IF StrLen(alt) > 100
                 THEN (IF NamePositions(alt) # {}
                       THEN << NameAt(alt, Min(NamePositions(alt))) >> ELSE << >>)
                      \o (IF Includes(alt, "ab@mail.org") THEN << <<"ab@mail.org">> >> ELSE << >>)
                 ELSE << >>
  IN  Dedupe(fromRaw \o fromAlt, {})

RECURSIVE EachWithBlank(_)
EachWithBlank(matches) ==
  IF matches = << >> THEN << >>
  ELSE Head(matches) \o <<"s1">> \o EachWithBlank(Tail(matches))

StructureText(fileReadable, rawBytes) ==
  EachWithBlank(StructureMatches(fileReadable, rawBytes))

getStevenResumeData ==
  [k \in CandidateFields \cup {"parsingMethod"} |->
     CASE k = "parsingMethod" -> <<"Hardcoded Data">>
       [] k = "name" -> <<"Steven Soricillo">>
       [] k = "email" -> <<"steven.soricillo@email.com">>
       [] OTHER -> <<"steven">>]

(***************************************************************************)
(* Inputs                                                                  *)
(***************************************************************************)
\* text layers: what pdf-parse and PDF.js extract from a document
NoLayer == << >>
Blank60 == <<"sp", "sp", "sp", "sp", "sp">>
Text49 == <<"w40", "w9">>
Text50 == <<"w40", "w9", "x">>
Text51 == <<"w40", "w9", "x", "x">>
ResumeText == <<"Ann Lee", "nl", "ab@mail.org", "nl", "w40", "s1", "engineer">>
ObjText == <<"w40", "w9", "7 0 obj">>
DctText == <<"w40", "w9", "DCTDecode">>
ShortText == <<"ab@mail.org", "s1", "w9">>

\* the utf8 decoding of the bytes of a document
ImageBytes == <<"<bin>">>
RunBytes == <<"<bin>", "w40", "s1", "ab@mail.org", "<bin>">>
ObjBytes == <<"<bin>", "7 0 obj", "s1", "w40", "s1", "w9", "<bin>">>
MailBytes == <<"<bin>", "ab@mail.org", "s1", "engineer", "<bin>">>
ShredBytes == <<"w9", "<bin>", "w9", "<bin>", "w9", "<bin>", "w9", "<bin>", "w9">>
LongBytes == <<"<bin>", "w40", "s1", "w40", "s1", "w40", "s1", "Ann Lee", "<bin>",
               "ab@mail.org", "<bin>">>

Doc(layer, bytes) == [readable |-> TRUE, bytes |-> bytes, layer |-> layer]

\* the documents considered; a file that cannot be read has nothing to decode
SampleDocs ==
  { [readable |-> FALSE, bytes |-> << >>, layer |-> NoLayer],
    Doc(NoLayer, ImageBytes), Doc(NoLayer, RunBytes), Doc(NoLayer, ObjBytes),
    Doc(NoLayer, MailBytes), Doc(NoLayer, ShredBytes), Doc(NoLayer, LongBytes),
    Doc(Blank60, ImageBytes), Doc(Text49, RunBytes), Doc(Text50, ImageBytes),
    Doc(Text51, ImageBytes), Doc(ResumeText, LongBytes), Doc(ObjText, ObjBytes),
    Doc(DctText, MailBytes), Doc(ShortText, MailBytes) }

\* what the OCR engine can recognise on a page
OcrTexts ==
  { <<"Ann Lee", "nl", "w40", "s1", "engineer">>,
    <<"ab@mail.org", "s1", "w40", "x">> }

OcrRuns == UNION {[1..n -> OcrTexts \cup {<<"error">>}] : n \in 1..MaxPages}

\* file names: the upload route stores Date.now() + '-' + originalname
FileNames == {"1700000000000-cv.pdf", "1700000000000-steven resume (sales ny).pdf"}

IsStevenFileNever(name) == FALSE

\* path.basename(pdfPath).toLowerCase() includes 'steven' or 'sales'
IsStevenFile(name) == name = "1700000000000-steven resume (sales ny).pdf"

EnvVars == {"OPEN_AI_KEY", "OPENAI_API_KEY", "AIRTABEL_KEY", "BASE_ID"}

\* the deployments considered: which of the variables the .env file sets
Environments ==
  { {}, {"OPEN_AI_KEY", "OPENAI_API_KEY", "AIRTABEL_KEY"}, EnvVars }

(***************************************************************************)
(* State                                                                   *)
(***************************************************************************)
VARIABLES
  env,            \* the environment variables that are set (process.env)
  op,             \* the operation in progress: "idle" or its name
  pc,             \* the position inside the operation
  fileName,       \* basename of pdfPath
  fileReadable,   \* fs.readFileSync(pdfPath) succeeds
  rawBytes,       \* the utf8 decoding of the file
  textLayer,      \* the text pdf-parse and PDF.js extract from the file
  extractedText,  \* parseResumeUniversal: let extractedText
  parsingMethod,  \* parseResumeUniversal: let parsingMethod
  trail,          \* the strategies attempted so far, in order (console log)
  calls,          \* the enhanceWithAI calls issued so far, in order
  aiReply,        \* the reply to enhanceWithAI the returned record was built
                  \* from; <<"none">> when it was built without a call
  result,         \* the value returned by the operation
  callThrew,      \* the operation rejected instead of returning
  uploaded,       \* the file multer stored is in the uploads directory
  resStatus,      \* HTTP status of the response (0: none sent yet)
  resBody,        \* JSON body of the response
  store,          \* the records of the Airtable table "Candidates"
  served,         \* the number of store requests answered before this one
  reqId,          \* the :id of the last GET /candidate/:id
  lastPut         \* the last PUT /candidate/:id: its id, its fields, whether
                  \* it was answered without error, the record's fields before


VARIABLES
  uploadsDir,     \* backend/uploads: for each file name the upload that wrote it, 0 when absent
  tempDir,        \* backend/temp: for each page image the upload that wrote it, 0 when absent
  clients         \* the uploads in progress: where each one is and what it did

diskVars == <<uploadsDir, tempDir, clients>>

\* Date.now() + '-' + file.originalname, for two clock readings (lines 24-26)
StoredNames == <<"1700000000001-cv.pdf", "1700000000002-cv.pdf">>

\* the parsers that rasterize the PDF into backend/temp
Rasterizers == {"AI vision", "OCR", "image text"}

\* pdf-poppler writes page-1.png, pdf2pic writes page.1.png
PageFiles == {"page-1.png", "page.1.png"}

PageFile(parser) == IF parser = "AI vision" THEN "page-1.png" ELSE "page.1.png"

Uploads == 1..MaxUploads

Waiting ==
  [at |-> "idle", parser |-> "none", file |-> "none", images |-> << >>, touched |-> {},
   created |-> FALSE]

EmptyDisk ==
  /\ uploadsDir = [n \in {StoredNames[1], StoredNames[2]} |-> 0]
  /\ tempDir = [n \in PageFiles |-> 0]
  /\ clients = [r \in Uploads |-> Waiting]

VARIABLE
  reqFile,        \* the file part of the upload request
  earlier         \* the call made before on the same document under another file
                  \* name: the name, the record it returned and its attempts

\* no call was made before
NoRun ==
  [name |-> "none", result |-> << >>, trail |-> << >>, calls |-> << >>, aiReply |-> <<"none">>]

parserVars == <<fileName, fileReadable, rawBytes, textLayer, extractedText, parsingMethod,
                trail, calls, aiReply, result, callThrew>>

webVars == <<uploaded, resStatus, resBody, store>>

crudVars == <<served, reqId, lastPut>>

\* let openai of universalPdfParser.js (lines 14-22) and of the OCR parser
openai == "OPEN_AI_KEY" \in env

Attempt(strat, threw, accepted) ==
  [strat |-> strat, threw |-> threw, kept |-> 0, accepted |-> accepted]

TextAttempt(strat, threw, text) ==
  [strat |-> strat, threw |-> threw, kept |-> StrLen(text), accepted |-> FALSE]

Call(stage, outcome) == [stage |-> stage, threw |-> outcome.threw]

\* { ...data, parsingMethod: method }
Tagged(data, method) == Spread(data, [parsingMethod |-> method])

NoRecord == EmptyObject

(***************************************************************************)
(* parseResumeUniversal                                                    *)
(***************************************************************************)
CallParseResumeUniversal ==
  /\ op = "idle"
  /\ \E name \in FileNames, doc \in SampleDocs :
       /\ fileName' = name
       /\ fileReadable' = doc.readable
       /\ rawBytes' = doc.bytes
       /\ textLayer' = doc.layer
  /\ op' = "parseResumeUniversal"
  /\ pc' = "pdf-parse"
  /\ extractedText' = << >>
  /\ parsingMethod' = << >>
  /\ UNCHANGED webVars
  /\ UNCHANGED crudVars
  /\ UNCHANGED <<diskVars, reqFile, earlier, env, trail, calls, aiReply, result, callThrew>>

KeptByPdfParseNever(text) == << >>

\* the text the first strategy keeps (lines 42-52)
KeptByPdfParse(text) ==
  IF text # << >> /\ StrLen(text) > 50
     /\ \A a \in PdfParseArtifacts : ~Includes(text, a)
  THEN text ELSE << >>

\* Strategy 1 (lines 32-55)
StrategyPdfParse ==
  /\ op = "parseResumeUniversal" /\ pc = "pdf-parse"
  /\ \/ \* readFileSync or the library throws: nothing was assigned
        /\ trail' = Append(trail, TextAttempt("pdf-parse", TRUE, extractedText))
        /\ UNCHANGED <<extractedText, parsingMethod>>
     \/ /\ fileReadable
        /\ extractedText' = KeptByPdfParse(textLayer)
        /\ parsingMethod' = <<"pdf-parse">>
        /\ trail' = Append(trail, TextAttempt("pdf-parse", FALSE, KeptByPdfParse(textLayer)))
  /\ pc' = "PDF.js"
  /\ UNCHANGED webVars
  /\ UNCHANGED crudVars
  /\ UNCHANGED <<diskVars, reqFile, earlier, env, op, fileName, fileReadable, rawBytes, textLayer, calls, aiReply, result,
                 callThrew>>

NeedsMoreTextUpTo50(text) == text = << >> \/ StrLen(text) <= 50

\* the guard of strategies 2 and 3 (lines 58, 75)
NeedsMoreText(text) == text = << >> \/ StrLen(text) < 50

\* Strategy 2 (lines 57-72)
StrategyPdfJs ==
  /\ op = "parseResumeUniversal" /\ pc = "PDF.js"
  /\ IF NeedsMoreText(extractedText)
     THEN \/ /\ trail' = Append(trail, TextAttempt("PDF.js", TRUE, extractedText))
             /\ UNCHANGED <<extractedText, parsingMethod>>
          \/ /\ fileReadable
             /\ IF textLayer # << >> /\ StrLen(textLayer) > StrLen(extractedText)
                THEN /\ extractedText' = textLayer
                     /\ parsingMethod' = <<"PDF.js">>
                ELSE UNCHANGED <<extractedText, parsingMethod>>
             /\ trail' = Append(trail, TextAttempt("PDF.js", FALSE, extractedText'))
     ELSE UNCHANGED <<extractedText, parsingMethod, trail>>
  /\ pc' = "Alternative"
  /\ UNCHANGED webVars
  /\ UNCHANGED crudVars
  /\ UNCHANGED <<diskVars, reqFile, earlier, env, op, fileName, fileReadable, rawBytes, textLayer, calls, aiReply, result,
                 callThrew>>

\* Strategy 3 (lines 74-87); extractTextAlternative catches its own errors
StrategyAlternative ==
  /\ op = "parseResumeUniversal" /\ pc = "Alternative"
  /\ IF NeedsMoreText(extractedText)
     THEN LET alternativeText == extractTextAlternative(fileReadable, rawBytes)
          IN  /\ IF alternativeText # << >> /\ StrLen(alternativeText) > 0
                 THEN /\ extractedText' = alternativeText
                      /\ parsingMethod' = <<"Alternative">>
                 ELSE UNCHANGED <<extractedText, parsingMethod>>
              /\ trail' = Append(trail,
                                 TextAttempt("Alternative", ~fileReadable, extractedText'))
     ELSE UNCHANGED <<extractedText, parsingMethod, trail>>
  /\ pc' = "meaningful"
  /\ UNCHANGED webVars
  /\ UNCHANGED crudVars
  /\ UNCHANGED <<diskVars, reqFile, earlier, env, op, fileName, fileReadable, rawBytes, textLayer, calls, aiReply, result,
                 callThrew>>

Return(record, reply) ==
  /\ result' = record
  /\ aiReply' = reply
  /\ callThrew' = FALSE
  /\ pc' = "returned"

Continue(next) ==
  /\ pc' = next
  /\ UNCHANGED <<result, aiReply, callThrew>>

\* lines 89-117: the test for meaningful text and the hardcoded record
CheckMeaningful ==
  /\ op = "parseResumeUniversal" /\ pc = "meaningful"
  /\ IF hasMeaningfulText(extractedText)
     THEN Continue("final")
     ELSE IF IsStevenFile(fileName)
          THEN Return(getStevenResumeData, <<"none">>)
          ELSE Continue("AI vision")
  /\ UNCHANGED webVars
  /\ UNCHANGED crudVars
  /\ UNCHANGED <<diskVars, reqFile, earlier, env, op, fileName, fileReadable, rawBytes, textLayer, extractedText,
                 parsingMethod, trail, calls>>

AISuffix == <<" + AI Enhancement">>

Uncaught(strat, next) ==
  /\ trail' = Append(trail, Attempt(strat, TRUE, FALSE))
  /\ callThrew' = TRUE
  /\ pc' = "returned"
  /\ UNCHANGED <<result, aiReply>>

\* a catch around a strategy (lines 126-128): log and go on
Caught(strat, next) ==
  /\ trail' = Append(trail, Attempt(strat, TRUE, FALSE))
  /\ Continue(next)

\* Strategy: AI vision (lines 119-129), parseResumeWithAI of aiResumeParser.js
StrategyAIVision ==
  /\ op = "parseResumeUniversal" /\ pc = "AI vision"
  /\ \/ \* the conversion to images throws or yields no image: the call rejects
        Caught("AI vision", "OCR")
     \/ \E replies \in PageRuns :
          LET aiResult == MergePages(EmptyObject, replies, FALSE, FALSE)
          IN  /\ fileReadable
              /\ trail' = Append(trail, Attempt("AI vision", FALSE, Usable(aiResult)))
              /\ IF Usable(aiResult)
                 THEN Return(aiResult, <<"none">>)
                 ELSE Continue("OCR")
  /\ UNCHANGED webVars
  /\ UNCHANGED crudVars
  /\ UNCHANGED <<diskVars, reqFile, earlier, env, op, fileName, fileReadable, rawBytes, textLayer, extractedText,
                 parsingMethod, calls>>

\* the replies an enhanceWithAI call can get, none when no call is made
RepliesIf(useAI) == IF useAI THEN AIOutcomes ELSE {<<"none">>}

IssuedWithRetry(stage, useAI, reply) ==
  IF useAI
  THEN IF enhanceWithAI(reply).threw
       THEN calls \o <<Call(stage, enhanceWithAI(reply)), Call(stage, enhanceWithAI(reply))>>
       ELSE Append(calls, Call(stage, enhanceWithAI(reply)))
  ELSE calls

\* the enhanceWithAI calls after a stage that calls it when useAI holds
Issued(stage, useAI, reply) ==
  IF useAI THEN Append(calls, Call(stage, enhanceWithAI(reply))) ELSE calls

\* parseResumeWithOCR after the page loop (ocrPdfParser.js lines 74-104)
OcrResult(cleanText, useAI, reply) ==
  IF useAI /\ ~enhanceWithAI(reply).threw
  THEN Tagged(enhanceWithAI(reply).obj, <<"OCR">> \o AISuffix)
  ELSE Tagged(parseTextIntelligentlyOCR(cleanText), <<"OCR">>)

\* Strategy: OCR (lines 131-141); parseResumeWithOCR catches its own errors
StrategyOCR ==
  /\ op = "parseResumeUniversal" /\ pc = "OCR"
  /\ \/ \* rasterizing or the OCR worker throws: the catch returns the fallback
        \* record, which has no name, e-mail or experience
        /\ trail' = Append(trail, Attempt("OCR", TRUE, Usable(getFallbackData)))
        /\ calls' = calls
        /\ Continue("Structure")
     \/ \E pages \in OcrRuns :
          LET fullText == OcrFullText(pages)
              cleanText == cleanOCRText(fullText)
              noText == fullText = << >> \/ StrLen(Trim(fullText)) < 10
              useAI == ~noText /\ openai /\ StrLen(cleanText) > 50
          IN  \E reply \in RepliesIf(useAI) :
                LET ocrResult == IF noText THEN getFallbackData
                                 ELSE OcrResult(cleanText, useAI, reply)
                IN  /\ fileReadable
                    /\ calls' = Issued("OCR", useAI, reply)
                    /\ trail' = Append(trail, Attempt("OCR", FALSE, Usable(ocrResult)))
                    /\ IF Usable(ocrResult)
                       THEN Return(ocrResult, reply)
                       ELSE Continue("Structure")
  /\ UNCHANGED webVars
  /\ UNCHANGED crudVars
  /\ UNCHANGED <<diskVars, reqFile, earlier, env, op, fileName, fileReadable, rawBytes, textLayer, extractedText, parsingMethod>>

\* extractFromPdfStructure after the text was collected (lines 1090-1115)
StructureResult(text, useAI, reply) ==
  IF useAI /\ ~enhanceWithAI(reply).threw
  THEN Tagged(enhanceWithAI(reply).obj, <<"Structure">> \o AISuffix)
  ELSE Tagged(parseTextIntelligently(text), <<"Structure-based">>)

\* Strategy: structure scraping (lines 143-153); extractFromPdfStructure
\* returns null when the file cannot be read or too little text was collected
StrategyStructure ==
  /\ op = "parseResumeUniversal" /\ pc = "Structure"
  /\ LET text == StructureText(fileReadable, rawBytes)
         isNull == ~fileReadable \/ ~(StrLen(Trim(text)) > 10)
         useAI == ~isNull /\ openai
     IN  \E reply \in RepliesIf(useAI) :
           LET structureResult == IF isNull THEN NoRecord
                                  ELSE StructureResult(text, useAI, reply)
           IN  /\ calls' = Issued("Structure", useAI, reply)
               /\ trail' = Append(trail, Attempt("Structure", ~fileReadable,
                                                 Usable(structureResult)))
               /\ IF Usable(structureResult)
                  THEN Return(structureResult, reply)
                  ELSE Continue("final")
  /\ UNCHANGED webVars
  /\ UNCHANGED crudVars
  /\ UNCHANGED <<diskVars, reqFile, earlier, env, op, fileName, fileReadable, rawBytes, textLayer, extractedText, parsingMethod>>

FinalResultSuffixed(cleanText, method, useAI, reply) ==
  IF useAI /\ ~enhanceWithAI(reply).threw
  THEN Tagged(enhanceWithAI(reply).obj, method \o AISuffix)
  ELSE Tagged(parseTextIntelligently(cleanText), method \o AISuffix)

\* lines 167-186 after the text was cleaned
FinalResult(cleanText, method, useAI, reply) ==
  IF useAI /\ ~enhanceWithAI(reply).threw
  THEN Tagged(enhanceWithAI(reply).obj, method \o AISuffix)
  ELSE Tagged(parseTextIntelligently(cleanText), method)

\* lines 156-186: fallback record, AI enhancement or heuristic parsing
FinalParse ==
  /\ op = "parseResumeUniversal" /\ pc = "final"
  /\ LET noText == extractedText = << >> \/ StrLen(Trim(extractedText)) < 10
         cleanText == cleanExtractedText(extractedText)
         useAI == ~noText /\ openai /\ StrLen(cleanText) > 50
     IN  \E reply \in RepliesIf(useAI) :
           /\ calls' = Issued("final", useAI, reply)
           /\ Return(IF noText THEN getFallbackData
                     ELSE FinalResult(cleanText, parsingMethod, useAI, reply), reply)
  /\ UNCHANGED webVars
  /\ UNCHANGED crudVars
  /\ UNCHANGED <<diskVars, reqFile, earlier, env, op, fileName, fileReadable, rawBytes, textLayer, extractedText,
                 parsingMethod, trail>>

\* parseResumeUniversal is called again on a copy of the same document that
\* was stored under the other file name (resumeRoutes.js lines 24-26 derive
\* the stored name from the name the client gave)
CallAgainRenamed ==
  /\ op = "parseResumeUniversal" /\ pc = "returned"
  /\ earlier = NoRun
  /\ earlier' = [name |-> fileName, result |-> result, trail |-> trail, calls |-> calls,
                 aiReply |-> aiReply]
  /\ \E name \in FileNames \ {fileName} : fileName' = name
  /\ pc' = "pdf-parse"
  /\ extractedText' = << >>
  /\ parsingMethod' = << >>
  /\ trail' = << >>
  /\ calls' = << >>
  /\ aiReply' = <<"none">>
  /\ result' = NoRecord
  /\ callThrew' = FALSE
  /\ UNCHANGED <<diskVars, reqFile, env, op, fileReadable, rawBytes, textLayer, webVars,
                 crudVars>>

(***************************************************************************)
(* parseResumeWithAI called on its own: the copy of aiResumeParser.js and  *)
(* the copy of universalPdfParser.js                                       *)
(***************************************************************************)
VisionParsers == {"aiResumeParser.parseResumeWithAI", "universalPdfParser.parseResumeWithAI"}

CallParseResumeWithAI ==
  /\ op = "idle"
  /\ op' \in VisionParsers
  /\ pc' = "pages"
  /\ UNCHANGED <<diskVars, reqFile, earlier, env, fileName, fileReadable, rawBytes, textLayer,
                 extractedText, parsingMethod, trail, calls, aiReply, result, callThrew,
                 webVars, crudVars>>

\* a parseResumeWithAI call that got these replies for its page images
VisionAttempt(replies) ==
  [strat |-> "AI vision", threw |-> FALSE, kept |-> 0, accepted |-> TRUE, pages |-> replies]

\* the call up to its return: it throws when no image could be made of the
\* file (and, in universalPdfParser.js, without a client); otherwise the page
\* loop merges the replies and the merge is returned
ParseResumeWithAI ==
  /\ op \in VisionParsers /\ pc = "pages"
  /\ \/ /\ trail' = Append(trail, Attempt("AI vision", TRUE, FALSE))
        /\ callThrew' = TRUE
        /\ UNCHANGED result
     \/ /\ op = "universalPdfParser.parseResumeWithAI" => "OPENAI_API_KEY" \in env
        /\ \E replies \in PageRuns :
             /\ result' = MergePages(EmptyObject, replies,
                                     op = "universalPdfParser.parseResumeWithAI",
                                     op = "universalPdfParser.parseResumeWithAI")
             /\ trail' = Append(trail, VisionAttempt(replies))
        /\ callThrew' = FALSE
  /\ pc' = "returned"
  /\ UNCHANGED <<diskVars, reqFile, earlier, env, op, fileName, fileReadable, rawBytes, textLayer,
                 extractedText, parsingMethod, calls, aiReply, webVars, crudVars>>

(***************************************************************************)
(* parseResumeRobust (robustPdfParser.js)                                  *)
(***************************************************************************)
CallParseResumeRobust ==
  /\ op = "idle"
  /\ \E doc \in SampleDocs :
       /\ fileReadable' = doc.readable
       /\ rawBytes' = doc.bytes
       /\ textLayer' = doc.layer
  /\ op' = "parseResumeRobust"
  /\ pc' = "pdf-parse"
  /\ extractedText' = << >>
  /\ parsingMethod' = << >>
  /\ UNCHANGED <<diskVars, reqFile, earlier, env, fileName, trail, calls, aiReply, result, callThrew,
                 webVars, crudVars>>

\* Strategy 1 (lines 29-39): the text is kept whatever it holds
RobustPdfParse ==
  /\ op = "parseResumeRobust" /\ pc = "pdf-parse"
  /\ \/ /\ trail' = Append(trail, TextAttempt("pdf-parse", TRUE, extractedText))
        /\ UNCHANGED <<extractedText, parsingMethod>>
     \/ /\ fileReadable
        /\ extractedText' = textLayer
        /\ parsingMethod' = <<"pdf-parse">>
        /\ trail' = Append(trail, TextAttempt("pdf-parse", FALSE, textLayer))
  /\ pc' = "OpenAI Vision"
  /\ UNCHANGED <<diskVars, reqFile, earlier, env, op, fileName, fileReadable, rawBytes, textLayer, calls,
                 aiReply, result, callThrew, webVars, crudVars>>

\* what extractTextFromPdfImages can return: the model's reading of the
\* page images, trimmed
VisionTexts == {<< >>, ShortText, ResumeText}

\* the text and the method after Strategy 2 took imageBasedText (lines 45-49)
TakenFromVisionUntagged(imageBasedText) ==
  IF imageBasedText # << >> /\ StrLen(Trim(imageBasedText)) > StrLen(extractedText)
  THEN [text |-> imageBasedText, method |-> parsingMethod]
  ELSE [text |-> extractedText, method |-> parsingMethod]

TakenFromVision(imageBasedText) ==
  IF imageBasedText # << >> /\ StrLen(Trim(imageBasedText)) > StrLen(extractedText)
  THEN [text |-> imageBasedText, method |-> <<"OpenAI Vision">>]
  ELSE [text |-> extractedText, method |-> parsingMethod]

\* Strategy 2 (lines 41-54); extractTextFromPdfImages throws without a
\* client and when no image can be made (lines 107-129)
RobustVision ==
  /\ op = "parseResumeRobust" /\ pc = "OpenAI Vision"
  /\ IF extractedText = << >> \/ StrLen(Trim(extractedText)) < 50
     THEN \/ /\ trail' = Append(trail, TextAttempt("OpenAI Vision", TRUE, extractedText))
             /\ UNCHANGED <<extractedText, parsingMethod>>
          \/ /\ openai
             /\ \E imageBasedText \in VisionTexts :
                  /\ extractedText' = TakenFromVision(imageBasedText).text
                  /\ parsingMethod' = TakenFromVision(imageBasedText).method
                  /\ trail' = Append(trail, TextAttempt("OpenAI Vision", FALSE,
                                                        TakenFromVision(imageBasedText).text))
     ELSE UNCHANGED <<extractedText, parsingMethod, trail>>
  /\ pc' = "Alternative"
  /\ UNCHANGED <<diskVars, reqFile, earlier, env, op, fileName, fileReadable, rawBytes, textLayer, calls,
                 aiReply, result, callThrew, webVars, crudVars>>

\* extractTextAlternative of robustPdfParser.js (lines 181-199): the runs of
\* ten or more characters of [A-Za-z0-9\s@.,\-+()], joined by blanks
extractTextAlternativeRobust(readable, bytes) ==
  IF ~readable THEN << >>
  ELSE Join(SelectSeq(SplitAt(bytes, "<bin>", << >>), LongRun), <<"s1">>)

\* Strategy 3 (lines 56-70)
RobustAlternative ==
  /\ op = "parseResumeRobust" /\ pc = "Alternative"
  /\ IF extractedText = << >> \/ StrLen(Trim(extractedText)) < 10
     THEN LET alternativeText == extractTextAlternativeRobust(fileReadable, rawBytes)
          IN  /\ IF alternativeText # << >> /\ StrLen(Trim(alternativeText)) > 0
                 THEN /\ extractedText' = alternativeText
                      /\ parsingMethod' = <<"Alternative">>
                 ELSE UNCHANGED <<extractedText, parsingMethod>>
              /\ trail' = Append(trail,
                                 TextAttempt("Alternative", FALSE, extractedText'))
     ELSE UNCHANGED <<extractedText, parsingMethod, trail>>
  /\ pc' = "final"
  /\ UNCHANGED <<diskVars, reqFile, earlier, env, op, fileName, fileReadable, rawBytes, textLayer, calls,
                 aiReply, result, callThrew, webVars, crudVars>>

\* extractName of robustPdfParser.js (lines 368-410): a whole line among the
\* first ten.  The local part of the alphabet's address has two characters
\* (the strategy that reads a name from it wants more than two) and no token
\* is one of the common names.
extractNameRobust(lines, text) ==
  LET wholeLine == {i \in 1..Len(lines) :
                      i <= 10 /\ lines[i][1] = "Ann Lee" /\ lines[i] = NameAt(lines[i], 1)}
  IN  IF wholeLine # {} THEN lines[Min(wholeLine)] ELSE << >>

\* extractSummary of robustPdfParser.js (lines 505-518): the two heading
\* patterns, no test on the capture, the first five lines
extractSummaryRobust(text) ==
  IF Capture("summary1", text) \in {NoMatch, << >>} THEN << >>
  ELSE FirstLines(Capture("summary1", text), 5)

\* extractCurrentJobTitle of robustPdfParser.js (lines 521-533): the first
\* job title with the rest of its line, whatever its length
extractCurrentJobTitleRobust(text) ==
  IF JobPositions(text) = {} THEN << >>
  ELSE Trim(UpToStop(Rest(text, Min(JobPositions(text)))))

\* parseTextIntelligently of robustPdfParser.js (lines 297-365)
parseTextIntelligentlyRobust(text) ==
  [k \in CandidateFields |->
     CASE k = "name" -> Trim(extractNameRobust(Lines(text), text))
       [] k = "email" -> Trim(extractEmail(text))
       [] k = "experience" -> Trim(extractExperience(text))
       [] k = "summary" -> Trim(extractSummaryRobust(text))
       [] k = "currentJobTitle" -> Trim(extractCurrentJobTitleRobust(text))
       [] k = "resumeText" -> text
       [] OTHER -> << >>]

\* lines 80-96
RobustResult(text, method, useAI, reply) ==
  IF useAI /\ ~enhanceWithAI(reply).threw
  THEN Tagged(enhanceWithAI(reply).obj, method \o AISuffix)
  ELSE Tagged(parseTextIntelligentlyRobust(text), method)

\* lines 74-96: fallback record, AI enhancement or heuristic parsing of the
\* extracted text, which this parser does not clean
RobustFinal ==
  /\ op = "parseResumeRobust" /\ pc = "final"
  /\ LET noText == extractedText = << >> \/ StrLen(Trim(extractedText)) < 10
         useAI == ~noText /\ openai /\ StrLen(extractedText) > 50
     IN  \E reply \in RepliesIf(useAI) :
           /\ calls' = Issued("final", useAI, reply)
           /\ Return(IF noText THEN getFallbackData
                     ELSE RobustResult(extractedText, parsingMethod, useAI, reply), reply)
  /\ UNCHANGED <<diskVars, reqFile, earlier, env, op, fileName, fileReadable, rawBytes, textLayer,
                 extractedText, parsingMethod, trail, webVars, crudVars>>

(***************************************************************************)
(* Airtable adapter (airtableClient.js)                                    *)
(***************************************************************************)
baseKeyOnly == "AIRTABEL_KEY" \in env

\* let base (lines 8-15)
base == "AIRTABEL_KEY" \in env /\ "BASE_ID" \in env

MockId == <<"mock_1700000000000">>
\* the ids Airtable gives to created records, in order of creation
FreshIds == <<"rec2", "rec3", "rec4", "rec5", "rec6", "rec7">>
NewId == <<FreshIds[Len(store)]>>
MockCandidate == [Name |-> <<"Mock Candidate">>, Email |-> <<"mock@example.com">>]
MockList == << [id |-> <<"mock_1">>, Name |-> <<"Mock Candidate">>,
                Email |-> <<"mock@example.com">>] >>

\* the ids and fields the callers pass
SampleIds == {<<"rec1">>, <<"rec9">>}
SampleFields == {[Name |-> <<"Ann Lee">>, Email |-> <<"ab@mail.org">>],
                 [Email |-> <<"w9">>]}

Positions(id) == {i \in 1..Len(store) : store[i].id = id}

Returned(value) ==
  /\ result' = value
  /\ callThrew' = FALSE
  /\ pc' = "returned"

Thrown ==
  /\ callThrew' = TRUE
  /\ pc' = "returned"
  /\ UNCHANGED result

\* addCandidate (lines 17-29) called on its own
AddCandidate ==
  /\ op = "idle"
  /\ op' = "addCandidate"
  /\ \E fields \in SampleFields :
       IF ~base
       THEN Returned([id |-> MockId, fields |-> fields]) /\ UNCHANGED store
       ELSE \/ /\ Returned([id |-> NewId, fields |-> fields])
               /\ store' = Append(store, [id |-> NewId, fields |-> fields])
            \/ Thrown /\ UNCHANGED store
  /\ UNCHANGED <<diskVars, reqFile, earlier, env, fileName, fileReadable, rawBytes, textLayer, extractedText,
                 parsingMethod, trail, calls, aiReply, uploaded, resStatus, resBody,
                 crudVars>>

\* getCandidate (lines 31-43): find rejects for an unknown id
GetCandidate ==
  /\ op = "idle"
  /\ op' = "getCandidate"
  /\ \E id \in SampleIds :
       /\ reqId' = id
       /\ IF ~base
          THEN Returned(MockCandidate)
          ELSE \/ Positions(id) # {} /\ Returned(store[Min(Positions(id))].fields)
               \/ Thrown
  /\ UNCHANGED <<diskVars, reqFile, earlier, env, fileName, fileReadable, rawBytes, textLayer, extractedText,
                 parsingMethod, trail, calls, aiReply, webVars, served, lastPut>>

\* getAllCandidates (lines 45-60)
GetAllCandidates ==
  /\ op = "idle"
  /\ op' = "getAllCandidates"
  /\ IF ~base
     THEN Returned(MockList)
     ELSE \/ Returned([i \in 1..Len(store) |->
                         Spread([id |-> store[i].id], store[i].fields)])
          \/ Thrown
  /\ UNCHANGED <<diskVars, reqFile, earlier, env, fileName, fileReadable, rawBytes, textLayer, extractedText,
                 parsingMethod, trail, calls, aiReply, webVars, crudVars>>

Replaced(old, fields) == fields

\* base("Candidates").update(id, fields) (line 68): Airtable's update changes
\* the fields it is given and leaves the others
Patched(old, fields) == Spread(old, fields)

Put(id, fields, ok, before) ==
  [id |-> id, fields |-> fields, ok |-> ok, before |-> before]

\* the fields of the record with this id, none when there is no such record
FieldsOf(id) ==
  IF Positions(id) = {} THEN EmptyObject ELSE store[Min(Positions(id))].fields

\* updateCandidate (lines 62-74)
UpdateCandidate ==
  /\ op = "idle"
  /\ op' = "updateCandidate"
  /\ \E id \in SampleIds, fields \in SampleFields :
       IF ~base
       THEN /\ Returned(fields)
            /\ lastPut' = Put(id, fields, TRUE, FieldsOf(id))
            /\ UNCHANGED store
       ELSE \/ /\ Positions(id) # {}
               /\ LET i == Min(Positions(id))
                      merged == Patched(store[i].fields, fields)
                  IN  /\ store' = [store EXCEPT ![i].fields = merged]
                      /\ Returned(merged)
               /\ lastPut' = Put(id, fields, TRUE, FieldsOf(id))
            \/ /\ Thrown
               /\ lastPut' = Put(id, fields, FALSE, FieldsOf(id))
               /\ UNCHANGED store
  /\ UNCHANGED <<diskVars, reqFile, earlier, env, fileName, fileReadable, rawBytes, textLayer, extractedText,
                 parsingMethod, trail, calls, aiReply, uploaded, resStatus, resBody,
                 served, reqId>>

\* the server takes the next store request after the last one was answered
NextRequest ==
  /\ op \in {"addCandidate", "getCandidate", "getAllCandidates", "updateCandidate"}
  /\ pc = "returned"
  /\ served < MaxRequests
  /\ served' = served + 1
  /\ op' = "idle"
  /\ pc' = "idle"
  /\ UNCHANGED <<diskVars, reqFile, earlier, env, parserVars, webVars, reqId, lastPut>>

(***************************************************************************)
(* POST /upload (resumeRoutes.js) with parseResumeUniversally              *)
(***************************************************************************)
\* let openai of the second half of universalPdfParser.js (lines 1181-1186)
openaiVision == "OPENAI_API_KEY" \in env

\* req.file.originalname of a stored file name
OriginalName(name) ==
  IF name = "1700000000000-cv.pdf" THEN <<"cv.pdf">>
  ELSE <<"steven resume (sales ny).pdf">>

RespondDropped(status, body) ==
  /\ pc' = "responded"
  /\ UNCHANGED <<resStatus, resBody>>

\* res.status(status).json(body), or res.json(body) with status 200
Respond(status, body) ==
  /\ resStatus' = status
  /\ resBody' = body
  /\ pc' = "responded"

ServerErrorSwallowed(message) ==
  Respond(200, [error |-> <<"Failed to process resume">>, details |-> <<message>>])

\* the catch of the handler (lines 471-479)
ServerError(message) ==
  Respond(500, [error |-> <<"Failed to process resume">>, details |-> <<message>>])

\* limits.fileSize
FileSizeLimit == 5242880

\* the file part of a request: its declared type and its size in bytes
NoFilePart == [mimetype |-> "none", size |-> 0]

FileParts ==
  [mimetype : {"application/pdf", "image/png"}, size : {FileSizeLimit, FileSizeLimit + 1}]

AdmittedAnySize(file) == file.mimetype = "application/pdf"

\* fileFilter and limits of the multer instance (lines 29-41)
Admitted(file) == file.mimetype = "application/pdf" /\ file.size <= FileSizeLimit

\* the request arrives: multer ends a request whose file it does not admit
\* with an error, and the handler never runs; otherwise the handler starts
\* (lines 410-418)
PostUpload ==
  /\ op = "idle"
  /\ op' = "upload"
  /\ UNCHANGED earlier
  /\ \/ \* no file part in the request
        /\ reqFile' = NoFilePart
        /\ Respond(400, [error |-> <<"No file uploaded">>])
        /\ UNCHANGED <<fileName, fileReadable, rawBytes, textLayer, uploaded>>
     \/ \E file \in FileParts :
          /\ ~Admitted(file)
          /\ reqFile' = file
          /\ pc' = "rejected"
          /\ UNCHANGED <<fileName, fileReadable, rawBytes, textLayer, uploaded,
                         resStatus, resBody>>
     \/ \E file \in FileParts, name \in FileNames, doc \in {d \in SampleDocs : d.readable} :
          /\ Admitted(file)
          /\ reqFile' = file
          /\ fileName' = name
          /\ fileReadable' = TRUE
          /\ rawBytes' = doc.bytes
          /\ textLayer' = doc.layer
          /\ uploaded' = TRUE
          /\ pc' = "vision"
          /\ UNCHANGED <<resStatus, resBody>>
  /\ UNCHANGED <<diskVars, env, extractedText, parsingMethod, trail, calls, aiReply, result,
                 callThrew, store, crudVars>>

\* parseResumeUniversally, AI part (lines 1600-1612), with parseResumeWithAI
\* (lines 1229-1369): its result is returned whatever it holds
UniversallyAIVision ==
  /\ op = "upload" /\ pc = "vision"
  /\ IF openaiVision
     THEN \/ \* no image could be made of the file: parseResumeWithAI throws
             /\ trail' = Append(trail, Attempt("AI vision", TRUE, FALSE))
             /\ pc' = "text"
             /\ UNCHANGED result
          \/ \E replies \in PageRuns :
               /\ result' = MergePages(EmptyObject, replies, TRUE, TRUE)
               /\ trail' = Append(trail, Attempt("AI vision", FALSE, TRUE))
               /\ pc' = "persist"
     ELSE /\ pc' = "text"
          /\ UNCHANGED <<trail, result>>
  /\ UNCHANGED <<diskVars, reqFile, earlier, env, op, fileName, fileReadable, rawBytes, textLayer, extractedText,
                 parsingMethod, calls, aiReply, callThrew, webVars, crudVars>>

\* parseResumeUniversally, text part (lines 1614-1648); when it throws the
\* handler rethrows and answers 500 (resumeRoutes.js lines 427-430, 471-479)
UniversallyText ==
  /\ op = "upload" /\ pc = "text"
  /\ \/ \* pdf-parse rejects the file
        /\ trail' = Append(trail, TextAttempt("pdf-parse", TRUE, << >>))
        /\ callThrew' = TRUE
        /\ ServerError("Failed to parse resume with universal parser")
        /\ UNCHANGED <<extractedText, result>>
     \/ /\ extractedText' = textLayer
        /\ trail' = Append(trail, TextAttempt("pdf-parse", FALSE, textLayer))
        /\ result' = IF textLayer # << >> /\ StrLen(Trim(textLayer)) > 50
                     THEN parseResumeText(textLayer)
                     ELSE MinimalData(textLayer)
        /\ pc' = "persist"
        /\ UNCHANGED <<callThrew, resStatus, resBody>>
  /\ UNCHANGED <<diskVars, reqFile, earlier, env, op, fileName, fileReadable, rawBytes, textLayer, parsingMethod,
                 calls, aiReply, uploaded, store, crudVars>>

\* salary strings: the tokens "0" and "8" are digits, "$" is the dollar sign
Digits == {"0", "8"}

DigitValue(tok) == IF tok = "8" THEN 8 ELSE 0

IsDigitOrComma(tok) == tok \in Digits \cup {","}

\* the longest prefix of digits and commas
RECURSIVE TakeRun(_)
TakeRun(s) ==
  IF s = << >> \/ ~IsDigitOrComma(Head(s)) THEN << >>
  ELSE <<Head(s)>> \o TakeRun(Tail(s))

\* group 1 of the leftmost match of \$?([\d,]+); << >> when nothing matches
RECURSIVE SalaryMatch(_)
SalaryMatch(s) ==
  IF s = << >> THEN << >>
  ELSE IF IsDigitOrComma(Head(s)) THEN TakeRun(s) ELSE SalaryMatch(Tail(s))

RECURSIVE Decimal(_)
Decimal(ds) ==
  IF ds = << >> THEN 0 ELSE 10 * Decimal(SubSeq(ds, 1, Len(ds) - 1)) + DigitValue(ds[Len(ds)])

\* parseInt of a string of digits: NaN for the empty string
ParseInt(ds) ==
  IF ds = << >> THEN [kind |-> "NaN", n |-> 0] ELSE [kind |-> "int", n |-> Decimal(ds)]

\* expectedSalaryValue (lines 433-441)
expectedSalaryValue(expectedSalary) ==
  IF expectedSalary = << >> \/ SalaryMatch(expectedSalary) = << >>
  THEN [kind |-> "null", n |-> 0]
  ELSE ParseInt(RemoveTok(SalaryMatch(expectedSalary), {","}))

\* the fields the handler stores (lines 444-460); a field of parsedData that
\* is undefined is left out of the JSON sent to Airtable
UploadFields(parsedData, name) ==
  LET copied == [Name |-> "name", Email |-> "email", Phone |-> "phone",
                 Location |-> "location", Skills |-> "skills",
                 Education |-> "education", Experience |-> "experience",
                 LinkedIn_URL |-> "linkedinUrl"]
      present == {f \in DOMAIN copied : copied[f] \in DOMAIN parsedData}
  IN  Spread([f \in present |-> parsedData[copied[f]]],
             [Projects |-> << >>,
              Preferred_Role |-> OrEmpty(parsedData, "currentJobTitle"),
              Expected_Salary |-> expectedSalaryValue(OrEmpty(parsedData, "expectedSalary")),
              Availability |-> << >>,
              Portfolio_URL |-> << >>,
              ResumeFile |-> OriginalName(name),
              CreatedAt |-> <<"2026-01-01">>])

OkUnrelated(id) ==
  [message |-> <<"Resume uploaded and parsed successfully using Universal Parser">>,
   candidateId |-> <<"rec1">>,
   parsingMethod |-> <<"Universal Parser">>,
   data |-> result]

Ok(id) ==
  [message |-> <<"Resume uploaded and parsed successfully using Universal Parser">>,
   candidateId |-> id,
   parsingMethod |-> <<"Universal Parser">>,
   data |-> result]

\* the rest of the handler (lines 433-470): store the candidate, remove the
\* file, answer; when addCandidate throws the file stays and the answer is 500
Persist ==
  /\ op = "upload" /\ pc = "persist"
  /\ LET fields == UploadFields(result, fileName)
     IN  IF ~base
         THEN /\ Respond(200, Ok(MockId))
              /\ uploaded' = FALSE
              /\ UNCHANGED store
         ELSE \/ /\ store' = Append(store, [id |-> NewId, fields |-> fields])
                 /\ Respond(200, Ok(NewId))
                 /\ uploaded' = FALSE
              \/ /\ ServerError("airtable")
                 /\ UNCHANGED <<store, uploaded>>
  /\ UNCHANGED <<diskVars, reqFile, earlier, env, op, fileName, fileReadable, rawBytes, textLayer, extractedText,
                 parsingMethod, trail, calls, aiReply, result, callThrew, crudVars>>

(***************************************************************************)
(* The system                                                              *)
(***************************************************************************)
Init ==
  /\ env \in Environments
  /\ op = "idle"
  /\ pc = "idle"
  /\ fileName = "1700000000000-cv.pdf"
  /\ fileReadable = TRUE
  /\ rawBytes = << >>
  /\ textLayer = << >>
  /\ extractedText = << >>
  /\ parsingMethod = << >>
  /\ trail = << >>
  /\ calls = << >>
  /\ aiReply = <<"none">>
  /\ result = NoRecord
  /\ callThrew = FALSE
  /\ uploaded = FALSE
  /\ resStatus = 0
  /\ resBody = EmptyObject
  /\ store = << [id |-> <<"rec1">>,
                 fields |-> [Name |-> <<"Bo Roe">>, Email |-> <<"bo@mail.org">>]] >>
  /\ served = 0
  /\ reqId = <<"none">>
  /\ lastPut = Put(<<"none">>, EmptyObject, FALSE, EmptyObject)
  /\ EmptyDisk
  /\ reqFile = NoFilePart
  /\ earlier = NoRun

vars == <<env, op, pc, parserVars, webVars, crudVars, diskVars, reqFile, earlier>>

Next ==
  \/ CallParseResumeUniversal
  \/ StrategyPdfParse \/ StrategyPdfJs \/ StrategyAlternative \/ CheckMeaningful
  \/ StrategyAIVision \/ StrategyOCR \/ StrategyStructure \/ FinalParse
  \/ PostUpload \/ UniversallyAIVision \/ UniversallyText \/ Persist
  \/ AddCandidate \/ GetCandidate \/ GetAllCandidates \/ UpdateCandidate

Spec == Init /\ [][Next]_vars

\* the two parsers that try several text strategies, called on a document
NextParsers ==
  \/ CallParseResumeUniversal
  \/ StrategyPdfParse \/ StrategyPdfJs \/ StrategyAlternative \/ CheckMeaningful
  \/ StrategyAIVision \/ StrategyOCR \/ StrategyStructure \/ FinalParse
  \/ CallParseResumeRobust
  \/ RobustPdfParse \/ RobustVision \/ RobustAlternative \/ RobustFinal

ParsersSpec == Init /\ [][NextParsers]_vars

\* parseResumeUniversal called on a document and then on its renamed copy
NextRenamed ==
  \/ CallParseResumeUniversal
  \/ StrategyPdfParse \/ StrategyPdfJs \/ StrategyAlternative \/ CheckMeaningful
  \/ StrategyAIVision \/ StrategyOCR \/ StrategyStructure \/ FinalParse
  \/ CallAgainRenamed

RenamedSpec == Init /\ [][NextRenamed]_vars

\* the upload handler on its own
NextUpload == PostUpload \/ UniversallyAIVision \/ UniversallyText \/ Persist

\* every external call the handler awaits returns or fails in the end, and
\* the event loop then runs the continuation
UploadFairness ==
  /\ WF_vars(UniversallyAIVision)
  /\ WF_vars(UniversallyText)
  /\ WF_vars(Persist)

UploadSpec == Init /\ [][NextUpload]_vars /\ UploadFairness

\* parseResumeWithAI called on a document
NextVision == CallParseResumeWithAI \/ ParseResumeWithAI

VisionSpec == Init /\ [][NextVision]_vars

\* the salary strings a parser can hand to the handler
SalaryStrings == UNION {[1..n -> {"$", ",", "0", "8", "x"}] : n \in 0..MaxSalaryLen}

\* the handler after the parser returned a record with some expectedSalary
SalaryInit ==
  /\ env = EnvVars
  /\ op = "upload"
  /\ pc = "persist"
  /\ fileName = "1700000000000-cv.pdf"
  /\ fileReadable = TRUE
  /\ rawBytes = ImageBytes
  /\ textLayer = NoLayer
  /\ extractedText = << >>
  /\ parsingMethod = << >>
  /\ trail = <<Attempt("AI vision", FALSE, TRUE)>>
  /\ calls = << >>
  /\ aiReply = <<"none">>
  /\ result \in {[expectedSalary |-> t] : t \in SalaryStrings}
  /\ callThrew = FALSE
  /\ uploaded = TRUE
  /\ resStatus = 0
  /\ resBody = EmptyObject
  /\ store = << [id |-> <<"rec1">>,
                 fields |-> [Name |-> <<"Bo Roe">>, Email |-> <<"bo@mail.org">>]] >>
  /\ served = 0
  /\ reqId = <<"none">>
  /\ lastPut = Put(<<"none">>, EmptyObject, FALSE, EmptyObject)
  /\ EmptyDisk
  /\ reqFile = [mimetype |-> "application/pdf", size |-> FileSizeLimit]
  /\ earlier = NoRun

SalarySpec == SalaryInit /\ [][Persist]_vars

\* the file belongs to another upload
Foreign(r, owner) == owner \notin {0, r}

\* what upload r did to a file of another upload, if it was one
Touch(r, owner, what) == IF Foreign(r, owner) THEN {what} ELSE {}

Moved(r, to, touches) ==
  [clients EXCEPT ![r].at = to, ![r].touched = clients[r].touched \cup touches]

\* the files fs.readdirSync(tempDir) lists with startsWith('page') and endsWith('.png')
NoPages == [n \in PageFiles |-> 0]

SweepTouches(r) == UNION {Touch(r, tempDir[n], "deleted images") : n \in PageFiles}

\* multer writes the uploaded file under the name it computed
Receive(r) ==
  /\ clients[r].at = "idle"
  /\ \E t \in 1..Len(StoredNames), p \in Rasterizers :
       /\ uploadsDir' = [uploadsDir EXCEPT ![StoredNames[t]] = r]
       /\ clients' = [clients EXCEPT ![r] =
                        [at |-> "stored", parser |-> p, file |-> StoredNames[t],
                         images |-> << >>,
                         touched |-> Touch(r, uploadsDir[StoredNames[t]], "overwrote upload"),
                         created |-> FALSE]]
  /\ UNCHANGED <<tempDir, env, earlier, reqFile, op, pc, parserVars, webVars, crudVars>>

\* convertPdfToImages up to the end of the conversion: the OCR parser first
\* deletes every page image, then the converter reads the uploaded file and
\* writes the page image; a missing file makes the conversion throw, and
\* with it every other strategy that reads the file: the handler answers 500
Rasterize(r) ==
  /\ clients[r].at = "stored"
  /\ LET c == clients[r]
         swept == c.parser = "OCR"
         cleared == IF swept THEN NoPages ELSE tempDir
     IN  IF uploadsDir[c.file] = 0
         THEN /\ tempDir' = cleared
              /\ clients' = Moved(r, "failed", IF swept THEN SweepTouches(r) ELSE {})
         ELSE /\ tempDir' = [cleared EXCEPT ![PageFile(c.parser)] = r]
              /\ clients' = Moved(r, "rasterized",
                                  Touch(r, uploadsDir[c.file], "read upload")
                                    \cup (IF swept THEN SweepTouches(r) ELSE {})
                                    \cup Touch(r, cleared[PageFile(c.parser)], "overwrote images"))
  /\ UNCHANGED <<uploadsDir, env, earlier, reqFile, op, pc, parserVars, webVars, crudVars>>

\* the loop that reads the page images after the conversion: the AI vision
\* parser deletes each image it read, the others leave it; without an image
\* the parse ends
Load(r) ==
  /\ clients[r].at = "rasterized"
  /\ LET c == clients[r]
         n == PageFile(c.parser)
     IN  IF tempDir[n] = 0
         THEN /\ clients' = Moved(r, "parsed", {})
              /\ UNCHANGED tempDir
         ELSE /\ clients' = [Moved(r, "loaded",
                                   Touch(r, tempDir[n], "read images")
                                     \cup (IF c.parser = "AI vision"
                                           THEN Touch(r, tempDir[n], "deleted images") ELSE {}))
                               EXCEPT ![r].images = <<tempDir[n]>>]
              /\ tempDir' = IF c.parser = "AI vision" THEN [tempDir EXCEPT ![n] = 0] ELSE tempDir
  /\ UNCHANGED <<uploadsDir, env, earlier, reqFile, op, pc, parserVars, webVars, crudVars>>

\* the recognition of the pages and what follows it: AI vision sweeps the
\* directory; OCR sweeps it unless the Tesseract worker failed; image-based
\* text extraction deletes its image only after a successful model call
Recognize(r) ==
  /\ clients[r].at = "loaded"
  /\ LET c == clients[r]
         n == PageFile(c.parser)
     IN  \/ /\ c.parser \in {"AI vision", "OCR"}
            /\ tempDir' = NoPages
            /\ clients' = Moved(r, "parsed", SweepTouches(r))
         \/ /\ c.parser = "image text"
            /\ tempDir' = [tempDir EXCEPT ![n] = 0]
            /\ clients' = Moved(r, "parsed", Touch(r, tempDir[n], "deleted images"))
         \/ /\ c.parser \in {"OCR", "image text"}
            /\ UNCHANGED tempDir
            /\ clients' = Moved(r, "parsed", {})
  /\ UNCHANGED <<uploadsDir, env, earlier, reqFile, op, pc, parserVars, webVars, crudVars>>

\* the handler after the parse (lines 433-479): addCandidate rejects and the
\* catch answers 500 with the file left in place; or the record is created
\* and fs.unlinkSync(filePath) removes the file before the answer 200, or
\* throws because the file is gone, and the catch answers 500
Finish(r) ==
  /\ clients[r].at = "parsed"
  /\ \/ /\ clients' = Moved(r, "failed", {})
        /\ UNCHANGED uploadsDir
     \/ IF uploadsDir[clients[r].file] = 0
        THEN /\ clients' = [Moved(r, "failed", {}) EXCEPT ![r].created = TRUE]
             /\ UNCHANGED uploadsDir
        ELSE /\ uploadsDir' = [uploadsDir EXCEPT ![clients[r].file] = 0]
             /\ clients' = [Moved(r, "finished",
                                  Touch(r, uploadsDir[clients[r].file], "deleted upload"))
                              EXCEPT ![r].created = TRUE]
  /\ UNCHANGED <<tempDir, env, earlier, reqFile, op, pc, parserVars, webVars, crudVars>>

NextDisk == \E r \in Uploads : Receive(r) \/ Rasterize(r) \/ Load(r) \/ Recognize(r) \/ Finish(r)

\* uploads that rasterize, running concurrently
\* the server is started with its environment set
DiskInit == Init /\ env = EnvVars

DiskSpec == DiskInit /\ [][NextDisk]_vars

\* lines of a resume the pattern lists can be tried on
ResumeLines ==
  { <<"Summary">>, <<"Experience">>, <<"Education">>, <<"w40">>, <<"w9">>, <<"Ran w40.">>,
    <<"engineer">>, <<"Lead">>, <<"Now", "s1", "Lead", "s1", "x">>,
    <<"Contact:", "s1", "Phone", ",", "s1", "Email">>,
    <<"Address:", "s1", "Austin", ",", "s1", "TX", "s1", "78701">>,
    <<"India">>, <<"Fluent", "s1", "in", "s1", "Hindi">>, <<"Speaks", "s1", "Hindi">>,
    <<"Salary", "s1", "90k">>, <<"Expected Salary", "s1", "95k">>, <<"$8500">>,
    <<"3", "s1", "yrs", "s1", "exp">>, <<"exp", ":", "s1", "7", "s1", "yrs", "s1", "total">>,
    <<"5", "s1", "years", "s1", "of", "s1", "experience">>, <<"12", "+", "s1", "years">>,
    <<"Python">>, <<"PYTHON">>, <<"Pythonic">>, <<"Docker">>, <<"C", "++">>,
    <<"C", "++", "11">>,
    <<"john@example.com">>, <<"mary@site.org">>, <<"Email", ":", "s1", "john@example.com", ".">>,
    <<"john@example.com", "Phone">>, <<"x", ".", "john@example.com", ".", "x">> }

ResumeTexts == {Join(ls, <<"nl">>) : ls \in UNION {[1..n -> ResumeLines] : n \in 0..MaxLines}}

PatternFields ==
  {"location", "summary", "experience", "education", "expectedSalary", "languages",
   "currentJobTitle", "yearsOfExperience"}

\* the extractors are called on a text
PatternsStart ==
  /\ env = {}
  /\ op = "parseTextIntelligently"
  /\ pc = "called"
  /\ fileName = "1700000000000-cv.pdf"
  /\ fileReadable = TRUE
  /\ rawBytes = << >>
  /\ textLayer = << >>
  /\ extractedText \in ResumeTexts
  /\ parsingMethod = << >>
  /\ trail = << >>
  /\ calls = << >>
  /\ aiReply = <<"none">>
  /\ result = EmptyObject
  /\ callThrew = FALSE
  /\ uploaded = FALSE
  /\ resStatus = 0
  /\ resBody = EmptyObject
  /\ store = << [id |-> <<"rec1">>,
                 fields |-> [Name |-> <<"Bo Roe">>, Email |-> <<"bo@mail.org">>]] >>
  /\ served = 0
  /\ reqId = <<"none">>
  /\ lastPut = Put(<<"none">>, EmptyObject, FALSE, EmptyObject)
  /\ EmptyDisk
  /\ reqFile = NoFilePart
  /\ earlier = NoRun

\* the pattern-driven extractors of parseTextIntelligently (lines 472-555)
ExtractFields ==
  /\ op = "parseTextIntelligently" /\ pc = "called"
  /\ result' =
       [f \in PatternFields \cup {"skills", "email"} |->
          CASE f = "skills" -> extractSkills(extractedText)
            [] f = "email" -> extractEmail(extractedText)
            [] f = "location" -> extractLocation(extractedText)
            [] f = "summary" -> extractSummary(extractedText)
            [] f = "experience" -> extractExperience(extractedText)
            [] f = "education" -> extractEducation(extractedText)
            [] f = "expectedSalary" -> extractExpectedSalary(extractedText)
            [] f = "languages" -> extractLanguages(extractedText)
            [] f = "currentJobTitle" -> extractCurrentJobTitle(extractedText)
            [] f = "yearsOfExperience" -> extractYearsOfExperience(extractedText)]
  /\ pc' = "returned"
  /\ UNCHANGED <<diskVars, reqFile, earlier, env, op, fileName, fileReadable, rawBytes, textLayer,
                 extractedText, parsingMethod, trail, calls, aiReply, callThrew, webVars,
                 crudVars>>

PatternSpec == PatternsStart /\ [][ExtractFields]_vars

\* the three heuristic parsers that extract a location with a list of
\* patterns: fallbackParsing of aiResumeParser.js, parseResumeText of
\* resumeRoutes.js and extractLocation of universalPdfParser.js
LocationExtractors == {"fallbackParsing", "parseResumeText", "extractLocation"}

\* the location patterns of fallbackParsing (aiResumeParser.js lines 236-241)
\* and of parseResumeText (resumeRoutes.js lines 301-309)
locationPatternsOf(parser) ==
  IF parser = "fallbackParsing" THEN <<"location1", "location2", "location4", "location3">>
  ELSE <<"locationHead", "locationAddress", "locationBased", "locationResiding",
         "location2", "location4", "location3">>

\* !['Email', 'Phone', 'LinkedIn', 'Profile'].some(word => location includes word)
NotACommonWord(location) ==
  \A i \in 1..Len(location) : location[i] \notin {"Email", "Phone"}

\* the loop of fallbackParsing and parseResumeText: location is assigned the
\* capture before the capture is tested, and the test only ends the loop
RECURSIVE LocationLoop(_, _, _)
LocationLoop(patterns, text, location) ==
  IF patterns = << >> THEN location
  ELSE IF Capture(Head(patterns), text) \in {NoMatch, << >>}
       THEN LocationLoop(Tail(patterns), text, location)
       ELSE IF NotACommonWord(Trim(Capture(Head(patterns), text)))
            THEN Trim(Capture(Head(patterns), text))
            ELSE LocationLoop(Tail(patterns), text, Trim(Capture(Head(patterns), text)))

\* one of the extractors is called on a text
LocationStart ==
  /\ env = {}
  /\ op \in LocationExtractors
  /\ pc = "called"
  /\ fileName = "1700000000000-cv.pdf"
  /\ fileReadable = TRUE
  /\ rawBytes = << >>
  /\ textLayer = << >>
  /\ extractedText \in ResumeTexts
  /\ parsingMethod = << >>
  /\ trail = << >>
  /\ calls = << >>
  /\ aiReply = <<"none">>
  /\ result = EmptyObject
  /\ callThrew = FALSE
  /\ uploaded = FALSE
  /\ resStatus = 0
  /\ resBody = EmptyObject
  /\ store = << [id |-> <<"rec1">>,
                 fields |-> [Name |-> <<"Bo Roe">>, Email |-> <<"bo@mail.org">>]] >>
  /\ served = 0
  /\ reqId = <<"none">>
  /\ lastPut = Put(<<"none">>, EmptyObject, FALSE, EmptyObject)
  /\ EmptyDisk
  /\ reqFile = NoFilePart
  /\ earlier = NoRun

\* the location the called extractor gives
ExtractLocation ==
  /\ op \in LocationExtractors /\ pc = "called"
  /\ result' = [location |->
                  IF op = "extractLocation" THEN extractLocation(extractedText)
                  ELSE LocationLoop(locationPatternsOf(op), extractedText, << >>)]
  /\ pc' = "returned"
  /\ UNCHANGED <<diskVars, reqFile, earlier, env, op, fileName, fileReadable, rawBytes, textLayer,
                 extractedText, parsingMethod, trail, calls, aiReply, callThrew, webVars,
                 crudVars>>

LocationSpec == LocationStart /\ [][ExtractLocation]_vars

\* a session of store requests, one after the other
NextStore ==
  \/ AddCandidate \/ GetCandidate \/ GetAllCandidates \/ UpdateCandidate
  \/ NextRequest

StoreSpec == Init /\ [][NextStore]_vars

(***************************************************************************)
(* Properties                                                              *)
(***************************************************************************)
IsTextAttempt(a) == a.strat \in {"pdf-parse", "PDF.js", "Alternative"}

\* the attempts of the text strategies so far, in the order they were made
TextAttempts == SelectSeq(trail, IsTextAttempt)

TextStrategyOrder == <<"pdf-parse", "PDF.js", "Alternative">>

Attempted(strat) == \E i \in 1..Len(trail) : trail[i].strat = strat

Accepted(strat) == \E i \in 1..Len(trail) : trail[i].strat = strat /\ trail[i].accepted

SomeAttemptThrew == \E i \in 1..Len(trail) : trail[i].threw

ParserReturned == op = "parseResumeUniversal" /\ pc = "returned"

TextStageOver ==
  op = "parseResumeUniversal" /\ pc \notin {"pdf-parse", "PDF.js", "Alternative"}

UploadDone == op = "upload" /\ pc = "responded" /\ resStatus # 400

NamedStevenOrSales == fileName = "1700000000000-steven resume (sales ny).pdf"

AllEmptyFallback ==
  [k \in CandidateFields \cup {"parsingMethod"} |->
     IF k = "parsingMethod" THEN <<"Fallback">> ELSE << >>]

\* C1: in parseResumeUniversal the text strategies are attempted in the order
\* pdf-parse, PDF.js, Alternative; a strategy is attempted only when every
\* earlier one left fewer than 50 characters, and once 50 or more characters
\* are kept no later text strategy is attempted.
C1_TextCascade ==
  op = "parseResumeUniversal" =>
    /\ Len(TextAttempts) <= 3
    /\ \A i \in 1..Len(TextAttempts) : TextAttempts[i].strat = TextStrategyOrder[i]
    /\ \A i \in 1..(Len(TextAttempts) - 1) : TextAttempts[i].kept < 50
    /\ pc = "Alternative" => (Len(TextAttempts) = 2 <=> TextAttempts[1].kept < 50)
    /\ TextStageOver =>
         /\ Len(TextAttempts) >= 1
         /\ Len(TextAttempts) < 3 => TextAttempts[Len(TextAttempts)].kept >= 50

\* the cascade stopped after PDF.js with exactly 50 characters kept
C1_Witness ==
  /\ TextStageOver
  /\ Len(TextAttempts) = 2
  /\ TextAttempts[1].kept = 0
  /\ TextAttempts[2].kept = 50

EveryStrategyFailed ==
  /\ Len(TextAttempts) = 3
  /\ \A i \in 1..3 : TextAttempts[i].kept = 0
  /\ \A s \in {"AI vision", "OCR", "Structure"} : Attempted(s) /\ ~Accepted(s)

\* C2: when the three text strategies left no text and AI vision, OCR and
\* structure scraping were attempted without giving a usable record,
\* parseResumeUniversal returns, without throwing, the record whose candidate
\* fields are all empty and whose parsingMethod is 'Fallback'.
C2_FallbackRecord ==
  (ParserReturned /\ EveryStrategyFailed) =>
    /\ ~callThrew
    /\ result = AllEmptyFallback

\* every strategy was attempted, every one of them threw, the parser returned
C2_Witness ==
  /\ ParserReturned
  /\ EveryStrategyFailed
  /\ \A i \in 1..Len(trail) : trail[i].threw

\* the upload's parser produced no candidate data: AI vision returned an
\* empty object, or pdf-parse returned at most 50 non-blank-trimmed characters
NothingParsed ==
  \/ Accepted("AI vision") /\ DOMAIN result = {}
  \/ /\ Attempted("pdf-parse") /\ ~callThrew
     /\ StrLen(Trim(extractedText)) <= 50

AirtableRejected ==
  /\ "AIRTABEL_KEY" \in env /\ "BASE_ID" \in env
  /\ resBody.details = <<"airtable">>

Successor(strat) ==
  CASE strat = "pdf-parse" -> "PDF.js"
    [] strat = "PDF.js" -> "Alternative"
    [] strat = "Alternative" -> "AI vision"
    [] strat = "AI vision" -> "OCR"
    [] strat = "OCR" -> "Structure"
    [] OTHER -> "none"

FollowedUp(i) ==
  IF i < Len(trail) THEN trail[i + 1].strat = Successor(trail[i].strat)
  ELSE \/ trail[i].strat = "Structure"
       \/ /\ trail[i].strat = "Alternative"
          /\ NamedStevenOrSales
          /\ result["parsingMethod"] = <<"Hardcoded Data">>

NoArtifacts(text) ==
  \A i \in 1..Len(text) : text[i] \notin {"7 0 obj", "FlateDecode", "DCTDecode"}

SelectableLayer ==
  /\ StrLen(textLayer) > 50
  /\ NoArtifacts(textLayer)
  /\ StrLen(Trim(textLayer)) >= 10

ScannedForParser ==
  /\ Len(TextAttempts) = 3
  /\ \A i \in 1..3 : TextAttempts[i].kept < 50

LastCallFailed == calls # << >> /\ calls[Len(calls)].threw

\* C7: when the enhanceWithAI call of parseResumeUniversal fails or its
\* reply cannot be parsed, the result is parseTextIntelligently of the same
\* cleaned text tagged with the bare method name; no record returned after a
\* failed call carries the ' + AI Enhancement' suffix.
C7_HeuristicFallback ==
  (ParserReturned /\ LastCallFailed) =>
    /\ \A i \in 1..Len(result["parsingMethod"]) :
         result["parsingMethod"][i] # " + AI Enhancement"
    /\ calls[Len(calls)].stage = "final" =>
         /\ parsingMethod \in {<<"pdf-parse">>, <<"PDF.js">>, <<"Alternative">>}
         /\ result = Spread(parseTextIntelligently(cleanExtractedText(extractedText)),
                            [parsingMethod |-> parsingMethod])

\* the reply of the final call was not JSON and the parser returned
C7_Witness ==
  /\ ParserReturned
  /\ LastCallFailed
  /\ calls[Len(calls)].stage = "final"
  /\ aiReply = <<"{bad">>

ValidJSON == {"J_full", "J_sum", "J_empty", "J_null"}

\* C8: when the reply to enhanceWithAI is valid JSON, bare or inside a json
\* code fence, the returned record has exactly the candidate fields of that
\* JSON with their values and carries the ' + AI Enhancement' suffix; the
\* fence makes no difference.
C8_ModelOutputReplaces ==
  ParserReturned =>
    \A j \in ValidJSON :
      aiReply \in {<<j>>, <<"~~~json", "nl", j, "nl", "~~~">>} =>
        /\ \A k \in CandidateFields :
             /\ k \in DOMAIN result <=> k \in DOMAIN JSONObject(j)
             /\ k \in DOMAIN result => result[k] = JSONObject(j)[k]
        /\ result["parsingMethod"][Len(result["parsingMethod"])] = " + AI Enhancement"

\* a fenced reply was parsed and its fields returned
C8_Witness ==
  /\ ParserReturned
  /\ aiReply = <<"~~~json", "nl", "J_full", "nl", "~~~">>
  /\ result["name"] = <<"Ann Lee">>
  /\ result["skills"] = <<"w9", ",", "s1", "x">>

CallsOf(stage) == Cardinality({i \in 1..Len(calls) : calls[i].stage = stage})

\* C9 as stated: enhanceWithAI is issued at most once per request
C9_Original == op = "parseResumeUniversal" => Len(calls) <= 1

StageOrder == <<"OCR", "Structure", "final">>

\* C9 (amended): within one parseResumeUniversal request each stage that
\* normalizes text (the OCR parser, structure scraping, the final stage)
\* issues enhanceWithAI at most once, a failed call is not repeated, and so a
\* request issues it at most three times.
C9_OncePerStage ==
  op = "parseResumeUniversal" =>
    /\ \A i \in 1..Len(calls) : calls[i].stage \in {"OCR", "Structure", "final"}
    /\ \A stage \in {"OCR", "Structure", "final"} : CallsOf(stage) <= 1
    /\ \A i, j \in 1..Len(calls) :
         i < j => \E a, b \in 1..3 :
                    a < b /\ StageOrder[a] = calls[i].stage /\ StageOrder[b] = calls[j].stage

\* the OCR parser, structure scraping and the final stage each called the model
C9_Witness ==
  /\ ParserReturned
  /\ Len(calls) = 3

CredentialsMissing == ~("AIRTABEL_KEY" \in env /\ "BASE_ID" \in env)

\* C10: when AIRTABEL_KEY or BASE_ID is missing, addCandidate, getCandidate,
\* getAllCandidates and updateCandidate return mock data and do not throw,
\* and the table is left alone.
C10_MockData ==
  CredentialsMissing =>
    /\ Len(store) = 1
    /\ (op \in {"addCandidate", "getCandidate", "getAllCandidates", "updateCandidate"}
          /\ pc = "returned") =>
         /\ ~callThrew
         /\ op = "addCandidate" =>
              (result.id = <<"mock_1700000000000">> /\ result.fields \in SampleFields)
         /\ op = "getCandidate" =>
              result = [Name |-> <<"Mock Candidate">>, Email |-> <<"mock@example.com">>]
         /\ op = "getAllCandidates" =>
              result = << [id |-> <<"mock_1">>, Name |-> <<"Mock Candidate">>,
                           Email |-> <<"mock@example.com">>] >>
         /\ op = "updateCandidate" => result \in SampleFields
    /\ (UploadDone /\ resStatus = 200) => resBody.candidateId = <<"mock_1700000000000">>

\* addCandidate answered with a mock record although AIRTABEL_KEY was set
C10_Witness ==
  /\ "AIRTABEL_KEY" \in env /\ "BASE_ID" \notin env
  /\ op = "addCandidate" /\ pc = "returned"
  /\ result.id = <<"mock_1700000000000">>

\* a GET /candidate/:id was answered after the last PUT, which was for the
\* same id and was answered without error
GetAfterPut ==
  /\ op = "getCandidate" /\ pc = "returned" /\ ~callThrew
  /\ lastPut.ok
  /\ lastPut.id = reqId

\* the GET returns the fields of the PUT with their new values and every
\* other field with the value it had before the PUT
RoundTrips ==
  /\ DOMAIN result = DOMAIN lastPut.before \cup DOMAIN lastPut.fields
  /\ \A k \in DOMAIN lastPut.fields : result[k] = lastPut.fields[k]
  /\ \A k \in DOMAIN lastPut.before \ DOMAIN lastPut.fields : result[k] = lastPut.before[k]

\* C11 as stated: a GET after a PUT for the same id returns the updated
\* fields and leaves every other field as it was
C11_Original == GetAfterPut => RoundTrips

\* C11 (amended): when AIRTABEL_KEY and BASE_ID are set, a GET after a PUT
\* for the same id returns the updated fields and leaves every other field
\* as it was; when one of them is missing the PUT stores nothing and the GET
\* returns the fixed mock candidate whatever was PUT.
C11_PutRoundTrip ==
  GetAfterPut =>
    IF "AIRTABEL_KEY" \in env /\ "BASE_ID" \in env
    THEN RoundTrips
    ELSE result = [Name |-> <<"Mock Candidate">>, Email |-> <<"mock@example.com">>]

\* the e-mail address of rec1 was PUT and a GET shows it beside the old name
C11_Witness ==
  /\ GetAfterPut
  /\ "AIRTABEL_KEY" \in env /\ "BASE_ID" \in env
  /\ DOMAIN lastPut.fields = {"Email"}
  /\ result = [Name |-> <<"Bo Roe">>, Email |-> <<"w9">>]

\* the upload stored a record: its Expected Salary and the string it came from
SalaryStored == op = "upload" /\ Len(store) = 2

SalarySent == store[2].fields.Expected_Salary

SalaryGiven == IF "expectedSalary" \in DOMAIN result THEN result["expectedSalary"] ELSE << >>

HasDigit(s) == \E i \in 1..Len(s) : s[i] \in {"0", "8"}

\* C12: the Expected Salary sent to the store is null or an integer: null
\* when expectedSalary is empty or has no digit, otherwise the integer that
\* the first run of digits and commas spells once the commas are removed.
C12_AsStated ==
  SalaryStored =>
    /\ SalarySent.kind \in {"null", "int"}
    /\ SalarySent.kind = "null" <=> ~HasDigit(SalaryGiven)
    /\ SalarySent.kind = "int" =>
         \E i \in 1..Len(SalaryGiven), j \in 1..Len(SalaryGiven) :
           /\ i <= j
           /\ \A k \in 1..(i - 1) : SalaryGiven[k] \notin {"0", "8", ","}
           /\ \A k \in i..j : SalaryGiven[k] \in {"0", "8", ","}
           /\ j = Len(SalaryGiven) \/ SalaryGiven[j + 1] \notin {"0", "8", ","}
           /\ SalarySent.n = Decimal(SelectSeq(SubSeq(SalaryGiven, i, j), LAMBDA t : t # ","))

\* the records the table holds beyond the one it started with
Created == SubSeq(store, 2, Len(store))

UploadAnswered == op = "upload" /\ pc = "responded"

CreatedOnceAndNamed ==
  /\ Len(Created) = 1
  /\ resBody.candidateId = Created[1].id

\* C13 as stated: an upload creates at most one record, and a 200 response
\* stands for exactly one created record whose id is the candidateId.
C13_Original ==
  /\ op = "upload" => Len(Created) <= 1
  /\ (UploadAnswered /\ resStatus = 200) => CreatedOnceAndNamed

\* C13: an upload creates at most one record; with both store credentials a
\* 200 response stands for exactly one created record whose id is the
\* candidateId, and without them for no record and the mock id.
C13_CreatedOnce ==
  /\ op = "upload" => Len(Created) <= 1
  /\ (UploadAnswered /\ resStatus = 200) =>
       IF "AIRTABEL_KEY" \in env /\ "BASE_ID" \in env
       THEN CreatedOnceAndNamed
       ELSE Len(Created) = 0 /\ resBody.candidateId = <<"mock_1700000000000">>

C13_Witness ==
  /\ UploadAnswered /\ resStatus = 200
  /\ "AIRTABEL_KEY" \in env /\ "BASE_ID" \in env
  /\ Len(store) = 2
  /\ resBody.candidateId = <<"rec2">>
  /\ store[2].fields.ResumeFile = <<"cv.pdf">>

\* C14 as stated: concurrent uploads are independent: no upload reads,
\* overwrites or deletes the uploaded file or the page images of another.
C14_AsStated == \A r \in 1..MaxUploads : clients[r].touched = {}

\* C15 as stated: when a rasterizing parse has finished, succeeded or failed,
\* none of its page images remains in the temp directory.
C15_AsStated ==
  \A r \in 1..MaxUploads :
    clients[r].at \in {"parsed", "finished"} =>
      \A n \in {"page-1.png", "page.1.png"} : tempDir[n] # r

\* the request carried a PDF of at most 5 MB
AcceptablePdf == reqFile.mimetype = "application/pdf" /\ reqFile.size <= 5242880

\* nothing of the request got to a parser or to the table
Untouched ==
  /\ pc \in {"rejected", "responded"}
  /\ trail = << >> /\ calls = << >> /\ result = << >>
  /\ Len(store) = 1

\* C16: an upload is accepted only if it is a PDF of at most 5 MB: a request
\* with another mimetype, a larger file or no file never reaches the parser
\* and creates no record, and without a file the answer is 400 'No file
\* uploaded'.
C16_OnlySmallPdfs ==
  (op = "upload" /\ ~AcceptablePdf) =>
    /\ Untouched
    /\ reqFile.mimetype = "none" =>
         (resStatus = 400 /\ resBody = [error |-> <<"No file uploaded">>])

C16_Witness ==
  /\ op = "upload" /\ pc = "rejected"
  /\ reqFile = [mimetype |-> "application/pdf", size |-> 5242881]

\* parseResumeUniversal returned a record tagged with a text method
BuiltFromText ==
  /\ op = "parseResumeUniversal" /\ pc = "returned"
  /\ "parsingMethod" \in DOMAIN result
  /\ result["parsingMethod"] # << >>
  /\ Head(result["parsingMethod"]) \in {"pdf-parse", "PDF.js", "Alternative"}

HasArtifact(text) == Includes(text, "7 0 obj") \/ Includes(text, "FlateDecode")

IsFallbackAttempt(a) == a.strat \in {"AI vision", "OCR", "Structure"}

\* the attempts of the fallbacks that follow the text strategies, in order
FallbackAttempts == SelectSeq(trail, IsFallbackAttempt)

\* the text strategies are over and left no meaningful text
NoMeaningfulText ==
  /\ op = "parseResumeUniversal"
  /\ pc \notin {"idle", "pdf-parse", "PDF.js", "Alternative", "meaningful"}
  /\ \/ StrLen(extractedText) <= 50
     \/ \E a \in {"7 0 obj", "FlateDecode", "DCTDecode"} : Includes(extractedText, a)

HasNameEmailOrExperience(r) ==
  \E k \in {"name", "email", "experience"} : k \in DOMAIN r /\ r[k] # << >>

\* C18: without meaningful text parseResumeUniversal tries the hardcoded
\* record, then AI vision, then OCR, then structure analysis; a later one is
\* tried only after every earlier one failed or gave a record without name,
\* e-mail and experience, and the first record that has one is returned.
C18_FallbackChain ==
  /\ (op = "parseResumeUniversal" /\ FallbackAttempts # << >>) =>
       /\ NoMeaningfulText
       /\ fileName # "1700000000000-steven resume (sales ny).pdf"
       /\ Len(FallbackAttempts) <= 3
       /\ \A i \in 1..Len(FallbackAttempts) :
            /\ FallbackAttempts[i].strat = <<"AI vision", "OCR", "Structure">>[i]
            /\ i < Len(FallbackAttempts) => ~FallbackAttempts[i].accepted
            /\ FallbackAttempts[i].accepted =>
                 (pc = "returned" /\ ~callThrew /\ HasNameEmailOrExperience(result))
       /\ pc = "OCR" <=> (Len(FallbackAttempts) = 1 /\ ~FallbackAttempts[1].accepted)
       /\ pc = "Structure" <=> (Len(FallbackAttempts) = 2 /\ ~FallbackAttempts[2].accepted)
  /\ (NoMeaningfulText /\ fileName = "1700000000000-steven resume (sales ny).pdf") =>
       /\ FallbackAttempts = << >>
       /\ pc = "returned" /\ ~callThrew
       /\ result["parsingMethod"] = <<"Hardcoded Data">>
       /\ HasNameEmailOrExperience(result)
  /\ (NoMeaningfulText /\ fileName = "1700000000000-cv.pdf" /\ pc # "AI vision") =>
       FallbackAttempts # << >>

C18_Witness ==
  /\ op = "parseResumeUniversal" /\ pc = "returned"
  /\ Len(FallbackAttempts) = 2
  /\ FallbackAttempts[1].strat = "AI vision" /\ ~FallbackAttempts[1].threw
  /\ FallbackAttempts[2].strat = "OCR" /\ FallbackAttempts[2].accepted
  /\ result["parsingMethod"] = <<"OCR">>

PatternsOf(field) ==
  CASE field = "location" -> locationPatterns
    [] field = "summary" -> summaryPatterns
    [] field = "experience" -> experienceSectionPatterns
    [] field = "education" -> educationSectionPatterns
    [] field = "expectedSalary" -> salaryPatterns
    [] field = "languages" -> languagePatterns
    [] field = "currentJobTitle" -> jobTitlePatterns
    [] field = "yearsOfExperience" -> experienceYearsPatterns

FieldsExtracted == op = "parseTextIntelligently" /\ pc = "returned"

\* the patterns of the field that match the text, by their place in the list
Matching(field) ==
  {i \in 1..Len(PatternsOf(field)) : Capture(PatternsOf(field)[i], extractedText) # NoMatch}

\* those whose capture also passes the test of the field
Passing(field) ==
  {i \in Matching(field) :
     /\ Capture(PatternsOf(field)[i], extractedText) # << >>
     /\ Valid(field, Capture(PatternsOf(field)[i], extractedText))}

Lowest(S) == CHOOSE i \in S : \A j \in S : i <= j

ValueOfPattern(field, i) == ValueOf(field, Capture(PatternsOf(field)[i], extractedText))

\* C19 as stated: the value of a pattern-driven field is the capture of the
\* first pattern of its list that matches; the capture of a later pattern is
\* never returned when an earlier pattern matched.
C19_Original ==
  FieldsExtracted =>
    \A f \in {"location", "summary", "experience", "education", "expectedSalary",
              "languages", "currentJobTitle", "yearsOfExperience"} :
      Matching(f) # {} => result[f] = ValueOfPattern(f, Lowest(Matching(f)))

\* C19: the value of a pattern-driven field is the capture of the first
\* pattern of its list that matches with a capture that passes the test of
\* the field; a pattern that matches with a capture that fails the test is
\* passed over, and without a passing pattern the field has its fallback value.
C19_FirstPassingPattern ==
  FieldsExtracted =>
    \A f \in {"location", "summary", "experience", "education", "expectedSalary",
              "languages", "currentJobTitle", "yearsOfExperience"} :
      IF Passing(f) # {}
      THEN result[f] = ValueOfPattern(f, Lowest(Passing(f)))
      ELSE result[f] = Fallback(f, extractedText)

C19_Witness ==
  /\ FieldsExtracted
  /\ extractedText = <<"Contact:", "s1", "Phone", ",", "s1", "Email", "nl", "India">>
  /\ Matching("location") = {3, 5}
  /\ Passing("location") = {5}
  /\ result["location"] = <<"India">>

\* how often the skill stands in the returned comma list
TimesListed(skill) ==
  Cardinality({i \in 1..Len(result["skills"]) : result["skills"][i] = skill})

\* the skill stands in the text as a whole word, in any case
OccursAsWord(skill) ==
  \E i \in Spelled(skill, extractedText) :
    /\ ~WordCharAt(extractedText, i - 1)
    /\ ~WordCharAt(extractedText, i + Len(SkillPattern(skill)))

\* C20 as stated: a vocabulary skill appears in the returned comma list if
\* and only if it occurs in the text as a whole word, in any case, and each
\* skill appears at most once.
C20_AsStated ==
  FieldsExtracted =>
    \A skill \in {"Python", "C++", "Docker", "Git"} :
      /\ TimesListed(skill) >= 1 <=> OccursAsWord(skill)
      /\ TimesListed(skill) <= 1

\* the places of the text where an address token stands
AddressPlaces ==
  {i \in 1..Len(extractedText) :
     extractedText[i] \in {"ab@mail.org", "john@example.com", "mary@site.org"}}

\* the token at place i is none the pattern could take into its match
Delimits(i) ==
  i \notin 1..Len(extractedText)
    \/ extractedText[i] \in {"nl", "s1", "sp", ",", ":", "<bin>"}

FirstAddress == CHOOSE i \in AddressPlaces : \A j \in AddressPlaces : i <= j

\* C21 as stated: a text that holds john@example.com as its first address
\* gives exactly that string as its email.
C21_Original ==
  FieldsExtracted =>
    (AddressPlaces # {} /\ extractedText[FirstAddress] = "john@example.com"
       => result["email"] = <<"john@example.com">>)

\* C21: the email is empty when the text has no match of the pattern, and
\* otherwise the leftmost match, which takes in the address characters
\* that adjoin it; john@example.com standing as the first address of the
\* text, after a delimiter and before a delimiter or a full stop that ends
\* the sentence, is returned exactly.
C21_LeftmostMatch ==
  FieldsExtracted =>
    /\ AddressPlaces = {} <=> result["email"] = << >>
    /\ AddressPlaces # {} =>
         \E a \in 1..FirstAddress : \E b \in FirstAddress..Len(extractedText) :
           /\ result["email"] = SubSeq(extractedText, a, b)
           /\ \A i \in a..b : ~Delimits(i)
           /\ Delimits(FirstAddress - 1) => a = FirstAddress
    /\ (/\ AddressPlaces # {}
        /\ extractedText[FirstAddress] = "john@example.com"
        /\ Delimits(FirstAddress - 1)
        /\ \/ Delimits(FirstAddress + 1)
           \/ /\ extractedText[FirstAddress + 1] = "."
              /\ Delimits(FirstAddress + 2))
         => result["email"] = <<"john@example.com">>

C21_Witness ==
  /\ FieldsExtracted
  /\ extractedText = <<"mary@site.org", "nl", "Email", ":", "s1", "john@example.com", ".">>
  /\ result["email"] = <<"mary@site.org">>

\* the places where a count stands that is followed by years or yrs and by
\* experience or exp (after blanks or line breaks, a + after the count and
\* an of before the last word allowed)
CountedYears ==
  {i \in 1..Len(extractedText) :
     /\ extractedText[i] \in {"3", "5", "7", "12"}
     /\ \E u \in (i + 1)..Len(extractedText) : \E w \in (u + 1)..Len(extractedText) :
          /\ extractedText[u] \in {"years", "yrs"}
          /\ \A k \in (i + 1)..(u - 1) :
               extractedText[k] \in {"s1", "nl"} \/ (k = i + 1 /\ extractedText[k] = "+")
          /\ extractedText[w] \in {"experience", "exp", "Experience", "Expected Salary"}
          /\ \E o \in u..(w - 1) :
               /\ o = u \/ extractedText[o] = "of"
               /\ \A k \in ((u + 1)..(w - 1)) \ {o} : extractedText[k] \in {"s1", "nl"}}

\* C22: the text "5 years of experience" gives "5 years"; when the text has
\* a count followed by years or yrs and by experience or exp, the field is
\* the count of the first such place followed by " years".
C22_CountOfYears ==
  FieldsExtracted =>
    /\ extractedText = <<"5", "s1", "years", "s1", "of", "s1", "experience">>
         => result["yearsOfExperience"] = <<"5", " years">>
    /\ CountedYears # {} =>
         result["yearsOfExperience"]
           = <<extractedText[CHOOSE i \in CountedYears : \A j \in CountedYears : i <= j],
               " years">>

C22_Witness ==
  /\ FieldsExtracted
  /\ extractedText = <<"5", "s1", "years", "s1", "of", "s1", "experience", "nl",
                       "3", "s1", "yrs", "s1", "exp">>
  /\ CountedYears = {1, 9}
  /\ result["yearsOfExperience"] = <<"5", " years">>

\* parseResumeUniversally has returned to the upload handler
UniversallyReturned == op = "upload" /\ pc = "persist"

\* C23 as stated: when AI vision parsing gives no data (the model call of
\* every page fails), parseResumeUniversally falls back to text-based
\* parsing of the PDF instead of returning the empty result of AI vision.
C23_AsStated ==
  (UniversallyReturned /\ Attempted("AI vision") /\ result = [k \in {} |-> << >>])
    => Attempted("pdf-parse")

\* one of the two multi-strategy parsers has returned a record
EitherParserReturned ==
  /\ op \in {"parseResumeUniversal", "parseResumeRobust"}
  /\ pc = "returned"
  /\ ~callThrew

\* the record's method starts with the name of a text strategy
FromExtractedText ==
  /\ EitherParserReturned
  /\ "parsingMethod" \in DOMAIN result
  /\ result["parsingMethod"] # << >>
  /\ Head(result["parsingMethod"]) \in {"pdf-parse", "PDF.js", "Alternative", "OpenAI Vision"}

\* the attempts that left a text of another length than the attempt before
TextSetters ==
  {i \in 1..Len(trail) :
     /\ trail[i].strat \in {"pdf-parse", "PDF.js", "Alternative", "OpenAI Vision"}
     /\ ~trail[i].threw
     /\ trail[i].kept # (IF i = 1 THEN 0 ELSE trail[i - 1].kept)}

\* what the named strategy reads in the document
OutputOf(strat) ==
  IF strat \in {"pdf-parse", "PDF.js"} THEN {textLayer}
  ELSE IF strat = "OpenAI Vision" THEN {<<"ab@mail.org", "s1", "w9">>,
         <<"Ann Lee", "nl", "ab@mail.org", "nl", "w40", "s1", "engineer">>}
  ELSE IF op = "parseResumeUniversal" THEN {extractTextAlternative(fileReadable, rawBytes)}
  ELSE {extractTextAlternativeRobust(fileReadable, rawBytes)}

\* the fields the heuristics read in the text that was parsed
HeuristicFields ==
  IF op = "parseResumeUniversal"
  THEN parseTextIntelligently(cleanExtractedText(extractedText))
  ELSE parseTextIntelligentlyRobust(extractedText)

\* C24: a record that parseResumeUniversal or parseResumeRobust built from
\* extracted text names in parsingMethod the strategy whose output is the
\* parsed text, the last strategy that set the text, and has the suffix
\* " + AI Enhancement" exactly when its fields are those of the model's reply.
C24_MethodNamesParsedText ==
  FromExtractedText =>
    LET strat == Head(result["parsingMethod"])
    IN  /\ TextSetters # {}
        /\ trail[CHOOSE i \in TextSetters : \A j \in TextSetters : j <= i].strat = strat
        /\ extractedText \in OutputOf(strat)
        /\ IF Len(result["parsingMethod"]) > 1
           THEN /\ result["parsingMethod"] = <<strat, " + AI Enhancement">>
                /\ aiReply # <<"none">>
                /\ ~enhanceWithAI(aiReply).threw
                /\ result = Tagged(enhanceWithAI(aiReply).obj, <<strat, " + AI Enhancement">>)
           ELSE /\ aiReply = <<"none">> \/ enhanceWithAI(aiReply).threw
                /\ result = Tagged(HeuristicFields, <<strat>>)

\* the robust parser replaced the short text of pdf-parse by the text read
\* on the page images, and the model's reply gave the fields
C24_Witness ==
  /\ FromExtractedText
  /\ op = "parseResumeRobust"
  /\ Attempted("pdf-parse")
  /\ textLayer = <<"ab@mail.org", "s1", "w9">>
  /\ extractedText = <<"Ann Lee", "nl", "ab@mail.org", "nl", "w40", "s1", "engineer">>
  /\ result["parsingMethod"] = <<"OpenAI Vision", " + AI Enhancement">>

\* parseResumeWithAI has returned the merge of its pages to its caller
VisionMerged ==
  /\ op \in {"aiResumeParser.parseResumeWithAI", "universalPdfParser.parseResumeWithAI"}
  /\ pc = "returned"
  /\ ~callThrew

\* the object a page's reply was parsed to; a page whose call or parse failed
\* (or whose JSON is null) has none
PageObject(reply) ==
  IF reply = <<"error">> THEN [threw |-> TRUE, isNull |-> FALSE, obj |-> [k \in {} |-> << >>]]
  ELSE IF op = "universalPdfParser.parseResumeWithAI" THEN ParseAIReply(reply)
  ELSE JSONParse(reply)

ParsedPages ==
  {i \in 1..Len(trail[Len(trail)].pages) :
     /\ ~PageObject(trail[Len(trail)].pages[i]).threw
     /\ ~PageObject(trail[Len(trail)].pages[i]).isNull}

ScalarFields ==
  {"name", "email", "phone", "location", "linkedinUrl", "expectedSalary", "summary",
   "areasOfExpertise", "qualifications", "languages", "currentJobTitle",
   "yearsOfExperience"}

\* C25 as stated: in the merge of the pages' results a non-empty scalar
\* field of an earlier page is never replaced by the empty value of a later
\* page; a page whose call or parse fails leaves the merged data unchanged
\* and the pages after it are still merged.
C25_AsStated ==
  VisionMerged =>
    LET pages == trail[Len(trail)].pages
    IN  /\ \A i \in ParsedPages : \A f \in ScalarFields :
             Truthy(PageObject(pages[i]).obj, f) => Truthy(result, f)
        /\ ParsedPages = {} => result = [k \in {} |-> << >>]
        /\ \A i \in ParsedPages : DOMAIN PageObject(pages[i]).obj \subseteq DOMAIN result

\* C26 as stated: POST /upload is atomic with respect to the store: a
\* request answered with an error status (400 or 500) created no candidate
\* record.
C26_AsStated ==
  /\ (op = "upload" /\ pc = "responded" /\ resStatus \in {400, 500}) => Len(store) = 1
  /\ \A r \in 1..MaxUploads : clients[r].at = "failed" => ~clients[r].created

\* C27 as stated: once a POST /upload request that stored a file has been
\* answered, with 200 or with an error, the uploaded file is no longer in the
\* uploads directory.
C27_AsStated ==
  /\ (op = "upload" /\ pc = "responded" /\ reqFile.mimetype # "none") => ~uploaded
  /\ \A r \in 1..MaxUploads :
       clients[r].at \in {"finished", "failed"} => uploadsDir[clients[r].file] # r

\* C28 as stated: the location a heuristic extractor returns contains none
\* of the rejected words Email, Phone, LinkedIn, Profile: a match that
\* contains one is discarded, and the location is empty when no other
\* pattern gives a valid match.
C28_AsStated ==
  (op \in {"fallbackParsing", "parseResumeText", "extractLocation"} /\ pc = "returned") =>
    \A i \in 1..Len(result["location"]) : result["location"][i] \notin {"Email", "Phone"}

\* both calls on the document, under the one and the other name, returned
BothRunsReturned ==
  /\ op = "parseResumeUniversal" /\ pc = "returned" /\ ~callThrew
  /\ earlier.name \notin {"none", fileName}

\* two logs agree as far as both go
Agree(a, b) == \A i \in 1..Len(a) : i <= Len(b) => a[i] = b[i]

\* the external collaborators answered both calls alike, wherever both asked
SameReplies ==
  /\ Agree(trail, earlier.trail)
  /\ Agree(calls, earlier.calls)
  /\ <<"none">> \in {aiReply, earlier.aiReply} \/ aiReply = earlier.aiReply

\* C29 as stated: the record parseResumeUniversal returns depends only on the
\* content of the PDF and on the replies of the external collaborators: two
\* calls on files of identical content but different names return the same
\* record.
C29_AsStated == (BothRunsReturned /\ SameReplies) => result = earlier.result

\* C30: every POST /upload request that reaches the handler is answered in
\* the end with a response of status 200, 400 or 500, given that every
\* external call returns or fails, and once a response was sent no other is
\* sent.
C30_AnsweredOnce ==
  /\ (op = "upload" /\ pc # "rejected")
       ~> (op = "upload" /\ pc = "responded" /\ resStatus \in {200, 400, 500})
  /\ [][(op = "upload" /\ resStatus # 0) => UNCHANGED <<resStatus, resBody>>]_vars

\* the parser failed on every method and the request was answered 500
C30_Witness ==
  /\ op = "upload" /\ pc = "responded"
  /\ callThrew
  /\ resStatus = 500
  /\ resBody = [error |-> <<"Failed to process resume">>,
                details |-> <<"Failed to parse resume with universal parser">>]

====
